---- MODULE Spec2Model ----
(***************************************************************************)
(* Rule-chain execution engine (bittoy/rule): the chain validator, the     *)
(* graph build (InitChainCtx), the traversal loop (ChainCtx.execute), the  *)
(* engine facade (NewChainEngine, ReloadSelf, Stop, OnMsg), the chain      *)
(* aggregation (InitChainAggregationCtx, ChainAggregationCtx.OnMsg), the   *)
(* node operations on one message, the ordering of the aspect lists and    *)
(* the lowering of switch cases (genExprScriptByCases), the VM pool of the *)
(* scripting nodes and concurrent traversals of one ChainCtx.              *)
(***************************************************************************)
EXTENDS Integers, Sequences, FiniteSets, TLC

(***************************************************************************)
(* Bounds of the model.                                                    *)
(***************************************************************************)
\* nodes of a generated definition (build specification)
MaxNodes == 3
\* connections of a generated definition
MaxEdges == 2
\* Engine.OnMsg calls made in one behaviour
MaxMsgs == 1
\* ReloadSelf calls in one behaviour
MaxReloads == 1
\* Stop calls in one behaviour
MaxStops == 2

(***************************************************************************)
(* Node kinds and relation types (types.NodeType constants).               *)
(***************************************************************************)
RuleSubTypeStart == "start"
RuleSubTypeEnd == "end"
RuleSubTypeJsSwitch == "jsSwitch"
RuleSubTypeExprSwitch == "exprSwitch"
RuleSubTypeJsFilter == "jsFilter"
RuleSubTypeExprFilter == "exprFilter"
RuleSubTypeExprAssign == "exprAssign"

DefaultRelationType == "default"
TrueRelationType == "true"
FalseRelationType == "false"

\* the kinds the component registry knows (engine.Registry after init())
RegisteredTypes ==
  {RuleSubTypeStart, RuleSubTypeEnd, RuleSubTypeJsSwitch, RuleSubTypeExprSwitch,
   RuleSubTypeJsFilter, RuleSubTypeExprFilter, RuleSubTypeExprAssign}

(***************************************************************************)
(* Small helpers on sequences.                                             *)
(***************************************************************************)
SeqsUpTo(S, n) == UNION {[1..k -> S] : k \in 0..n}

Range(s) == {s[i] : i \in 1..Len(s)}

Perms(S) == {p \in [1..Cardinality(S) -> S] : \A i, j \in 1..Cardinality(S) : i # j => p[i] # p[j]}

(***************************************************************************)
(* Mappings (map[string]any) are sets of <<key, value>> pairs with at most *)
(* one pair per key.                                                       *)
(***************************************************************************)
EmptyMap == {}

\* maps.Copy(dst, src): keys of src overwrite, the other keys of dst stay
MapsCopy(dst, src) == {p \in dst : \A q \in src : q[1] # p[1]} \cup src

(***************************************************************************)
(* Cycle detection: checkCycles builds the adjacency map of the edge list  *)
(* and runs a DFS with a visited set and a visiting stack.  `order` is the *)
(* order in which Go ranges over the keys of the adjacency map.            *)
(***************************************************************************)
cycleGraph(edges) ==
  [k \in {edges[i].fromId : i \in 1..Len(edges)} |->
     LET idx == SelectSeq([i \in 1..Len(edges) |-> i], LAMBDA i : edges[i].fromId = k)
     IN [j \in 1..Len(idx) |-> edges[idx[j]].toId]]

RECURSIVE dfs(_, _, _)
RECURSIVE dfsEach(_, _, _, _)
dfs(graph, node, st) ==
  IF node \in st.stack
  THEN [st EXCEPT !.path = Append(@, node), !.hit = TRUE]
  ELSE IF node \in st.visited
  THEN [st EXCEPT !.hit = FALSE]
  ELSE LET st1 == [st EXCEPT !.visited = @ \cup {node}, !.stack = @ \cup {node},
                             !.path = Append(@, node)]
           nexts == IF node \in DOMAIN graph THEN graph[node] ELSE << >>
           r == dfsEach(graph, nexts, 1, st1)
       IN IF r.hit THEN r
          ELSE [r EXCEPT !.stack = @ \ {node}, !.path = SubSeq(@, 1, Len(@) - 1)]

dfsEach(graph, nexts, i, st) ==
  IF i > Len(nexts) THEN [st EXCEPT !.hit = FALSE]
  ELSE LET r == dfs(graph, nexts[i], st)
       IN IF r.hit THEN r ELSE dfsEach(graph, nexts, i + 1, r)

RECURSIVE cycleLoop(_, _, _, _)
cycleLoop(graph, order, i, st) ==
  IF i > Len(order) THEN [hasCycle |-> FALSE, path |-> << >>]
  ELSE IF order[i] \in st.visited THEN cycleLoop(graph, order, i + 1, st)
  ELSE LET r == dfs(graph, order[i], st)
       IN IF r.hit THEN [hasCycle |-> TRUE, path |-> r.path]
          ELSE cycleLoop(graph, order, i + 1, r)

checkCycles(edges, order) ==
  cycleLoop(cycleGraph(edges), order, 1,
            [visited |-> {}, stack |-> {}, path |-> << >>, hit |-> FALSE])

\* the orders in which the range over the adjacency map can visit its keys
CycleOrders(edges) == Perms({edges[i].fromId : i \in 1..Len(edges)})

checkChainCycles(def, order) ==
  IF checkCycles(def.connections, order).hasCycle THEN "cycle" ELSE "ok"

(***************************************************************************)
(* validateChainNode: the structural rules of the chain validator, in the  *)
(* order of the source; the result is the first failing rule or "ok".      *)
(***************************************************************************)
\* nodeRoutes as both the validator and InitChainCtx build it: the declared
\* connections of each source id, in declaration order
RoutesOf(connections) ==
  [k \in {connections[i].fromId : i \in 1..Len(connections)} |->
     SelectSeq(connections, LAMBDA c : c.fromId = k)]

RoutesAt(routes, id) == IF id \in DOMAIN routes THEN routes[id] ELSE << >>

\* the labels of a list of outgoing connections
LabelsOf(out) == {out[j].type : j \in 1..Len(out)}

\* a start or exprAssign node without exactly one connection, or whose
\* connection is not labelled default, is accepted
arityStartAssignAny(out) == TRUE

\* start and exprAssign: exactly one connection, labelled default
arityStartAssign(out) == Len(out) = 1 /\ out[1].type = DefaultRelationType

\* an end node with connections is accepted
arityEndAny(out) == TRUE

\* end: no connection
arityEnd(out) == Len(out) = 0

\* a filter is only required to have two connections
arityFilterCountOnly(out) == Len(out) = 2

\* jsFilter and exprFilter: two connections, a true and a false among them
arityFilter(out) ==
  Len(out) = 2 /\ TrueRelationType \in LabelsOf(out) /\ FalseRelationType \in LabelsOf(out)

\* a switch is only required to have a connection
aritySwitchNonEmpty(out) == Len(out) # 0

\* exprSwitch and jsSwitch: at least one connection, a default among them
aritySwitch(out) == Len(out) # 0 /\ DefaultRelationType \in LabelsOf(out)

\* only the source of a connection is looked up
connectionsKnownFromOnly(cs, ids) == \A i \in 1..Len(cs) : cs[i].fromId \in ids

\* the connection loop: source and target are ids of declared nodes
connectionsKnown(cs, ids) == \A i \in 1..Len(cs) : cs[i].fromId \in ids /\ cs[i].toId \in ids

validateChainNode(def) ==
  LET ns == def.nodes
      cs == def.connections
      ids == {ns[i].id : i \in 1..Len(ns)}
      hasStart == \E i \in 1..Len(ns) : ns[i].type = RuleSubTypeStart
      hasEnd == \E i \in 1..Len(ns) : ns[i].type = RuleSubTypeEnd
      routes == RoutesOf(cs)
      out(n) == RoutesAt(routes, n.id)
      arityOk(n) ==
        /\ n.type \in {RuleSubTypeStart, RuleSubTypeExprAssign} => arityStartAssign(out(n))
        /\ n.type = RuleSubTypeEnd => arityEnd(out(n))
        /\ n.type \in {RuleSubTypeJsFilter, RuleSubTypeExprFilter} => arityFilter(out(n))
        /\ n.type \in {RuleSubTypeExprSwitch, RuleSubTypeJsSwitch} => aritySwitch(out(n))
  IN IF Len(ns) = 0 \/ Len(cs) = 0 THEN "noNodesOrEdges"
     ELSE IF ~hasStart THEN "noStart"
     ELSE IF ~hasEnd THEN "noEnd"
     ELSE IF ~connectionsKnown(cs, ids) THEN "unknownNode"
     ELSE IF \E i \in 1..Len(ns) : ~arityOk(ns[i]) THEN "arity"
     ELSE "ok"

\* ChainValidator.OnChainBeforeInit: the rules of NewChainRules in the order
\* they were added, the first error wins
ChainValidatorOnChainBeforeInit(def, order) ==
  IF checkChainCycles(def, order) # "ok" THEN checkChainCycles(def, order)
  ELSE validateChainNode(def)

(***************************************************************************)
(* Aspects.  An aspect is named by its type; the operators below say which *)
(* hook interfaces each aspect implements and its Order().                 *)
(*   built-in: chainAggregationValidator, chainValidator, metrics          *)
(*   shipped debug tracers: chainDebug, nodeDebug                          *)
(*   user-supplied: userChainHook (chain before/after hooks that may       *)
(*   return an error), userNodeHook (node before/after hooks that may      *)
(*   return an error), userVeto (an on-chain-before-init hook that may     *)
(*   veto the build)                                                       *)
(***************************************************************************)
BuiltinsAspects == <<"chainAggregationValidator", "chainValidator", "metrics">>

MetricsOrder == 0

AspectOrder(a) ==
  CASE a = "chainAggregationValidator" -> 10
    [] a = "chainValidator" -> 10
    [] a = "metrics" -> MetricsOrder
    [] a = "chainDebug" -> 900
    [] a = "nodeDebug" -> 900
    [] a = "userVeto" -> 20
    [] a = "userChainHook" -> 50
    [] a = "userChainHookB" -> 50
    [] a = "userNodeHook" -> 60

IsChainAspect(a) == a \in {"chainDebug", "userChainHook", "userChainHookB"}
IsNodeAspect(a) == a \in {"nodeDebug", "userNodeHook"}
IsOnChainBeforeInitAspect(a) == a \in {"chainValidator", "userVeto"}
\* hooks written by the user may return an error, the shipped ones return nil
HookMayFail(a) == a \in {"userChainHook", "userChainHookB", "userNodeHook", "userVeto"}

\* sort.Slice(list, Order(i) < Order(j)) on a list shorter than 12 elements
\* is an insertion sort: an element moves left while it is strictly smaller
RECURSIVE insertByOrder(_, _)
insertByOrder(sorted, a) ==
  IF Len(sorted) = 0 THEN <<a>>
  ELSE IF AspectOrder(a) < AspectOrder(sorted[Len(sorted)])
       THEN Append(insertByOrder(SubSeq(sorted, 1, Len(sorted) - 1), a), sorted[Len(sorted)])
       ELSE Append(sorted, a)

RECURSIVE sortSlice(_, _)
sortSlice(list, n) ==
  IF n = 0 THEN << >> ELSE insertByOrder(sortSlice(list, n - 1), list[n])

SortByOrder(list) == sortSlice(list, Len(list))

\* the longest list pdqsort hands to the insertion sort
MaxInsertion == 12

Orders(list) == {AspectOrder(list[i]) : i \in 1..Len(list)}
HasOrder(list, o) == SelectSeq(list, LAMBDA a : AspectOrder(a) = o)

RemoveFirst(list, a) ==
  LET i == CHOOSE k \in 1..Len(list) : list[k] = a /\ \A j \in 1..(k - 1) : list[j] # a
  IN SubSeq(list, 1, i - 1) \o SubSeq(list, i + 1, Len(list))

\* every arrangement of the elements of a list
RECURSIVE Arrangements(_)
Arrangements(list) ==
  IF Len(list) = 0 THEN {<< >>}
  ELSE UNION {{<<a>> \o rest : rest \in Arrangements(RemoveFirst(list, a))} : a \in Range(list)}

\* the lists that are sorted by Order() and hold the elements of `list`
RECURSIVE SortedArrangements(_, _)
SortedArrangements(list, orders) ==
  IF orders = {} THEN {<< >>}
  ELSE LET o == CHOOSE m \in orders : \A n \in orders : m <= n
       IN {run \o rest : run \in Arrangements(HasOrder(list, o)),
                         rest \in SortedArrangements(list, orders \ {o})}

\* sort.Slice(list, Order(i) < Order(j)): the insertion sort on a list of
\* up to MaxInsertion elements; on a longer list the quicksort, which
\* leaves elements of equal Order() in an order sort.Slice does not specify
SortSliceOutcomes(list) ==
  IF Len(list) <= MaxInsertion THEN {SortByOrder(list)}
  ELSE SortedArrangements(list, Orders(list))

GetChainAspects(list) == SelectSeq(SortByOrder(list), IsChainAspect)
GetNodeAspects(list) == SelectSeq(SortByOrder(list), IsNodeAspect)
GetOnChainBeforeInitAspects(list) == SelectSeq(SortByOrder(list), IsOnChainBeforeInitAspect)

(***************************************************************************)
(* Scripts.  A node's configuration is its script, drawn from a small      *)
(* library of expressions over the message input [x, priVars]; RunScript   *)
(* is the evaluator (vm.Run), ScriptCompiles is expr.Compile.              *)
(***************************************************************************)
Lookup(m, k) == IF \E p \in m : p[1] = k THEN {(CHOOSE p \in m : p[1] = k)[2]} ELSE {}

ScriptCompiles(script) == script # "(("

MapResult(m) == [kind |-> "map", m |-> m, s |-> "", b |-> FALSE]
StringResult(s) == [kind |-> "string", m |-> {}, s |-> s, b |-> FALSE]
BoolResult(b) == [kind |-> "bool", m |-> {}, s |-> "", b |-> b]
ErrorResult == [kind |-> "error", m |-> {}, s |-> "", b |-> FALSE]
\* a value that is neither a mapping nor a string nor a boolean
OtherResult(kind) == [kind |-> kind, m |-> {}, s |-> "", b |-> FALSE]

RunScript(script, input) ==
  CASE script = "{}" -> MapResult(EmptyMap)
    [] script = "{ok:true}" -> MapResult({<<"ok", 1>>})
    [] script = "{ok:false}" -> MapResult({<<"ok", 0>>})
    [] script = "{bonus:10}" -> MapResult({<<"bonus", 10>>})
    [] script = "{bonus:20}" -> MapResult({<<"bonus", 20>>})
    [] script = "{bonus:10,extra:1}" -> MapResult({<<"bonus", 10>>, <<"extra", 1>>})
    [] script = "{terminate:true}" -> MapResult({<<"terminate", 1>>})
    [] script = "{terminate:false}" -> MapResult({<<"terminate", 0>>})
    [] script = "{total:priVars.bonus+x}" ->
         IF Lookup(input.priVars, "bonus") = {} THEN ErrorResult
         ELSE MapResult({<<"total", (CHOOSE v \in Lookup(input.priVars, "bonus") : TRUE) + input.x>>})
    [] script = "x==0?'A':'X'" -> StringResult(IF input.x = 0 THEN "A" ELSE "X")
    [] script = "x==0?'default':''" -> StringResult(IF input.x = 0 THEN "default" ELSE "")
    [] script = "'default'" -> StringResult("default")
    [] script = "x>0" -> BoolResult(input.x > 0)
    [] script = "x" -> OtherResult("int")
    [] script = "priVars.bonus" ->
         IF Lookup(input.priVars, "bonus") = {} THEN OtherResult("nil") ELSE OtherResult("int")
    [] OTHER -> ErrorResult

(***************************************************************************)
(* The message envelope: input (the fact x and the priVars scratch map)    *)
(* and chainOutput, which is a nil map until an end node sets it.          *)
(***************************************************************************)
NilOutput == [isNil |-> TRUE, m |-> {}]
SomeOutput(m) == [isNil |-> FALSE, m |-> m]

\* newRuleMsg: input["priVars"] = {} and no chain output
newRuleMsg(x) == [input |-> [x |-> x, priVars |-> EmptyMap], chainOutput |-> NilOutput]

\* an assign that replaces the scratch map by the mapping returned
CopyInnerDataReplace(msg, priVars) == [msg EXCEPT !.input.priVars = priVars]

CopyInnerData(msg, priVars) == [msg EXCEPT !.input.priVars = MapsCopy(@, priVars)]
ClearInnerData(msg) == [msg EXCEPT !.input.priVars = EmptyMap]
SetChainOutput(msg, output) == [msg EXCEPT !.chainOutput = SomeOutput(output)]

(***************************************************************************)
(* Node operations: OnMsg of each node kind.  The result is the emitted    *)
(* label, whether the op returned an error, and the envelope afterwards.   *)
(***************************************************************************)
OpResult(label, err, msg) == [label |-> label, err |-> err, msg |-> msg]

StartNodeOnMsg(node, msg) == OpResult(DefaultRelationType, FALSE, msg)

\* an end node that clears the chain output before it runs its script
EndNodeOnMsgClearFirst(node, msg) ==
  LET out == RunScript(node.script, msg.input)
  IN IF out.kind = "map" THEN OpResult("", FALSE, SetChainOutput(ClearInnerData(msg), out.m))
     ELSE OpResult("", TRUE, [msg EXCEPT !.chainOutput = NilOutput])

EndNodeOnMsg(node, msg) ==
  LET out == RunScript(node.script, msg.input)
  IN IF out.kind = "error" THEN OpResult("", TRUE, msg)
     ELSE IF out.kind = "map" THEN OpResult("", FALSE, SetChainOutput(ClearInnerData(msg), out.m))
     ELSE OpResult("", TRUE, msg)

ExprAssignNodeOnMsg(node, msg) ==
  LET out == RunScript(node.script, msg.input)
  IN IF out.kind = "error" THEN OpResult("", TRUE, msg)
     ELSE IF out.kind = "map" THEN OpResult(DefaultRelationType, FALSE, CopyInnerData(msg, out.m))
     ELSE OpResult("", TRUE, msg)

ExprSwitchNodeOnMsg(node, msg) ==
  LET out == RunScript(node.script, msg.input)
  IN IF out.kind = "error" THEN OpResult("", TRUE, msg)
     ELSE IF out.kind = "string" THEN OpResult(out.s, FALSE, msg)
     ELSE OpResult("", TRUE, msg)

\* a filter that takes every value that is not the boolean true for false
ExprFilterNodeOnMsgFalsy(node, msg) ==
  LET out == RunScript(node.script, msg.input)
  IN IF out.kind = "error" THEN OpResult("", TRUE, msg)
     ELSE OpResult(IF out.kind = "bool" /\ out.b THEN TrueRelationType ELSE FalseRelationType,
                   FALSE, msg)

ExprFilterNodeOnMsg(node, msg) ==
  LET out == RunScript(node.script, msg.input)
  IN IF out.kind = "error" THEN OpResult("", TRUE, msg)
     ELSE IF out.kind = "bool"
          THEN OpResult(IF out.b THEN TrueRelationType ELSE FalseRelationType, FALSE, msg)
     ELSE OpResult("", TRUE, msg)

NodeOnMsg(node, msg) ==
  CASE node.type = RuleSubTypeStart -> StartNodeOnMsg(node, msg)
    [] node.type = RuleSubTypeEnd -> EndNodeOnMsg(node, msg)
    [] node.type = RuleSubTypeExprAssign -> ExprAssignNodeOnMsg(node, msg)
    [] node.type = RuleSubTypeExprSwitch -> ExprSwitchNodeOnMsg(node, msg)
    [] node.type = RuleSubTypeExprFilter -> ExprFilterNodeOnMsg(node, msg)
    [] OTHER -> OpResult("", TRUE, msg)

(***************************************************************************)
(* InitChainCtx: run the on-chain-before-init hooks, create and initialise *)
(* every node, index the nodes by id, record the start node, index the     *)
(* connections by source.  `order` is the map order of the cycle check,    *)
(* `veto` whether a user on-chain-before-init hook returns an error.       *)
(***************************************************************************)
NoChainCtx ==
  [selfDefinition |-> [id |-> "", disabled |-> FALSE, nodes |-> << >>, connections |-> << >>],
   nodes |-> << >>, nodeRoutes |-> << >>, rootNodeId |-> "",
   beforeAspects |-> << >>, afterAspects |-> << >>]

RECURSIVE beforeInitLoop(_, _, _, _, _)
beforeInitLoop(hooks, i, def, order, veto) ==
  IF i > Len(hooks) THEN "ok"
  ELSE LET r == IF hooks[i] = "chainValidator" THEN ChainValidatorOnChainBeforeInit(def, order)
                ELSE IF veto THEN "veto" ELSE "ok"
       IN IF r # "ok" THEN r ELSE beforeInitLoop(hooks, i + 1, def, order, veto)

\* InitRuleNodeCtx: NewNode fails on an unknown kind, Init on a script
\* that does not compile
InitRuleNodeCtx(item) ==
  IF item.type \notin RegisteredTypes THEN "newNodeError"
  ELSE IF ~ScriptCompiles(item.script) THEN "nodeInitError"
  ELSE "ok"

\* the node loop: the index keeps, for each id, the node declared last with
\* that id, and rootNodeId the start node declared last
LastIndexIn(S) == CHOOSE i \in S : \A j \in S : j <= i

NodeIndex(ns) ==
  [id \in {ns[i].id : i \in 1..Len(ns)} |-> ns[LastIndexIn({i \in 1..Len(ns) : ns[i].id = id})]]

RootNodeId(ns) ==
  IF \E i \in 1..Len(ns) : ns[i].type = RuleSubTypeStart
  THEN ns[LastIndexIn({i \in 1..Len(ns) : ns[i].type = RuleSubTypeStart})].id
  ELSE ""

InitChainCtx(aspects, def, order, veto) ==
  LET hookErr == beforeInitLoop(GetOnChainBeforeInitAspects(aspects), 1, def, order, veto)
      ns == def.nodes
      bad == {i \in 1..Len(ns) : InitRuleNodeCtx(ns[i]) # "ok"}
      firstBad == CHOOSE i \in bad : \A j \in bad : i <= j
  IN IF hookErr # "ok" THEN [err |-> hookErr, ctx |-> NoChainCtx]
     ELSE IF bad # {} THEN [err |-> InitRuleNodeCtx(ns[firstBad]), ctx |-> NoChainCtx]
     ELSE [err |-> "ok",
           ctx |-> [selfDefinition |-> def,
                    nodes |-> NodeIndex(ns),
                    nodeRoutes |-> RoutesOf(def.connections),
                    rootNodeId |-> RootNodeId(ns),
                    beforeAspects |-> GetNodeAspects(aspects),
                    afterAspects |-> GetNodeAspects(aspects)]]

(***************************************************************************)
(* Traversal.  getNextNode probes the outgoing edges of a node in their    *)
(* declared order and returns the first one whose label matches and whose  *)
(* target is in the node index.                                            *)
(***************************************************************************)
GetNodeById(rc, id) == id \in DOMAIN rc.nodes

\* getNextNode without the comparison of the label: the first edge whose
\* target exists is followed
getNextNodeAnyLabel(rc, id, relationType) ==
  IF id \in DOMAIN rc.nodeRoutes
  THEN LET relations == rc.nodeRoutes[id]
           hits == {i \in 1..Len(relations) : GetNodeById(rc, relations[i].toId)}
       IN IF hits # {}
          THEN [found |-> TRUE, isNil |-> FALSE,
                id |-> relations[CHOOSE i \in hits : \A j \in hits : i <= j].toId]
          ELSE [found |-> TRUE, isNil |-> TRUE, id |-> ""]
  ELSE [found |-> FALSE, isNil |-> TRUE, id |-> ""]

getNextNode(rc, id, relationType) ==
  IF id \in DOMAIN rc.nodeRoutes
  THEN LET relations == rc.nodeRoutes[id]
           hits == {i \in 1..Len(relations) :
                      relations[i].type = relationType /\ GetNodeById(rc, relations[i].toId)}
       IN IF hits # {}
          THEN [found |-> TRUE, isNil |-> FALSE,
                id |-> relations[CHOOSE i \in hits : \A j \in hits : i <= j].toId]
          ELSE [found |-> TRUE, isNil |-> TRUE, id |-> ""]
  ELSE [found |-> FALSE, isNil |-> TRUE, id |-> ""]

\* ChainCtx.onBefore / onAfter: the node hooks in order, the first error
\* aborts; failB / failA say whether a fallible hook returns an error
NodeHooksFail(hooks, fail) == fail /\ \E i \in 1..Len(hooks) : HookMayFail(hooks[i])

\* one iteration of the loop of ChainCtx.execute on the current node
executeStep(rc, cur, msg, failB, failA) ==
  LET node == rc.nodes[cur]
      op == NodeOnMsg(node, msg)
      nxt == getNextNode(rc, cur, op.label)
      res(outcome, err, m, ran, label, next) ==
        [outcome |-> outcome, err |-> err, msg |-> m, ran |-> ran, label |-> label, next |-> next,
         afterRan |-> ran /\ err # "nodeError"]
  IN IF NodeHooksFail(rc.beforeAspects, failB) THEN res("error", "hookError", msg, FALSE, "", "")
     ELSE IF op.err THEN res("error", "nodeError", op.msg, TRUE, "", "")
     ELSE IF NodeHooksFail(rc.afterAspects, failA) THEN res("error", "hookError", op.msg, TRUE, op.label, "")
     ELSE IF Len(op.label) = 0 THEN res("done", "", op.msg, TRUE, op.label, "")
     ELSE IF ~nxt.found THEN res("error", "nodeNotFound", op.msg, TRUE, op.label, "")
     ELSE IF nxt.isNil THEN res("error", "branchMissing", op.msg, TRUE, op.label, "")
     ELSE res("next", "", op.msg, TRUE, op.label, nxt.id)

(***************************************************************************)
(* Chain definitions and their serialised form.  A DSL value is either the *)
(* empty byte slice, bytes that are not JSON, or the JSON of a definition. *)
(***************************************************************************)
Node(id, type, script) == [id |-> id, type |-> type, script |-> script]
Conn(fromId, toId, type) == [fromId |-> fromId, toId |-> toId, type |-> type]
Chain(id, disabled, nodes, connections) ==
  [id |-> id, disabled |-> disabled, nodes |-> nodes, connections |-> connections]

NoDef == Chain("", FALSE, << >>, << >>)

EmptyDsl == [kind |-> "empty", def |-> NoDef]
GarbageDsl == [kind |-> "garbage", def |-> NoDef]

\* JsonParser.EncodeChain / DecodeChain
EncodeChain(def) == [kind |-> "json", def |-> def]
DecodeChain(dsl) == [err |-> dsl.kind # "json", def |-> dsl.def]

\* start -> assign -> end
LinearDef ==
  Chain("linear", FALSE,
        <<Node("s", RuleSubTypeStart, "{}"), Node("a", RuleSubTypeExprAssign, "{bonus:10}"),
          Node("e", RuleSubTypeEnd, "{total:priVars.bonus+x}")>>,
        <<Conn("s", "a", DefaultRelationType), Conn("a", "e", DefaultRelationType)>>)

\* two assigns in a row: the second returns a key the first has set
MergeDef ==
  Chain("merge", FALSE,
        <<Node("s", RuleSubTypeStart, "{}"), Node("a", RuleSubTypeExprAssign, "{bonus:10,extra:1}"),
          Node("b", RuleSubTypeExprAssign, "{bonus:20}"),
          Node("e", RuleSubTypeEnd, "{total:priVars.bonus+x}")>>,
        <<Conn("s", "a", DefaultRelationType), Conn("a", "b", DefaultRelationType),
          Conn("b", "e", DefaultRelationType)>>)

\* an end node whose script reads a scratch key no node has set: the
\* evaluator fails at run time
BrokenEndDef ==
  Chain("brokenEnd", FALSE,
        <<Node("s", RuleSubTypeStart, "{}"), Node("e", RuleSubTypeEnd, "{total:priVars.bonus+x}")>>,
        <<Conn("s", "e", DefaultRelationType)>>)

\* start -> filter -> end (true) | sink (false)
FilterDef ==
  Chain("filter", FALSE,
        <<Node("s", RuleSubTypeStart, "{}"), Node("f", RuleSubTypeExprFilter, "x>0"),
          Node("e", RuleSubTypeEnd, "{ok:true}"), Node("k", RuleSubTypeEnd, "{ok:false}")>>,
        <<Conn("s", "f", DefaultRelationType), Conn("f", "e", TrueRelationType),
          Conn("f", "k", FalseRelationType)>>)

\* a switch that yields label X, for which no edge exists
SwitchDef ==
  Chain("switch", FALSE,
        <<Node("s", RuleSubTypeStart, "{}"), Node("w", RuleSubTypeExprSwitch, "x==0?'A':'X'"),
          Node("e", RuleSubTypeEnd, "{ok:true}"), Node("k", RuleSubTypeEnd, "{ok:false}")>>,
        <<Conn("s", "w", DefaultRelationType), Conn("w", "e", "A"),
          Conn("w", "k", DefaultRelationType)>>)

\* an assign followed by a switch whose script can yield the empty string
EmptyLabelDef ==
  Chain("emptyLabel", FALSE,
        <<Node("s", RuleSubTypeStart, "{}"), Node("a", RuleSubTypeExprAssign, "{bonus:10}"),
          Node("w", RuleSubTypeExprSwitch, "x==0?'default':''"),
          Node("e", RuleSubTypeEnd, "{ok:true}")>>,
        <<Conn("s", "a", DefaultRelationType), Conn("a", "w", DefaultRelationType),
          Conn("w", "e", DefaultRelationType)>>)

\* the first of two same-label edges leads to an undeclared node
DanglingDef ==
  Chain("dangling", FALSE,
        <<Node("s", RuleSubTypeStart, "{}"), Node("w", RuleSubTypeExprSwitch, "'default'"),
          Node("e", RuleSubTypeEnd, "{ok:true}")>>,
        <<Conn("s", "w", DefaultRelationType), Conn("w", "ghost", DefaultRelationType),
          Conn("w", "e", DefaultRelationType)>>)

\* a -> b, b -> a
CycleDef ==
  Chain("cycle", FALSE,
        <<Node("s", RuleSubTypeStart, "{}"), Node("a", RuleSubTypeExprAssign, "{bonus:10}"),
          Node("b", RuleSubTypeExprAssign, "{}"), Node("e", RuleSubTypeEnd, "{}")>>,
        <<Conn("s", "a", DefaultRelationType), Conn("a", "b", DefaultRelationType),
          Conn("b", "a", DefaultRelationType)>>)

\* a start node without outgoing edges
NoRoutesDef ==
  Chain("noRoutes", FALSE,
        <<Node("s", RuleSubTypeStart, "{}"), Node("e", RuleSubTypeEnd, "{}")>>,
        <<Conn("e", "s", "back")>>)

DisabledDef == Chain("disabled", TRUE, LinearDef.nodes, LinearDef.connections)

UnknownKindDef ==
  Chain("unknownKind", FALSE,
        <<Node("s", RuleSubTypeStart, "{}"), Node("t", "jsTransform", "{}"),
          Node("e", RuleSubTypeEnd, "{}")>>,
        <<Conn("s", "t", DefaultRelationType), Conn("t", "e", DefaultRelationType)>>)

BadScriptDef ==
  Chain("badScript", FALSE,
        <<Node("s", RuleSubTypeStart, "{}"), Node("e", RuleSubTypeEnd, "((")>>,
        <<Conn("s", "e", DefaultRelationType)>>)

\* the options NewChainEngine is called with: none, or WithAspects(list)
NoOpts == [given |-> FALSE, aspects |-> << >>]
WithAspects(list) == [given |-> TRUE, aspects |-> list]
OptionSets ==
  {NoOpts,
   WithAspects(<<"nodeDebug", "chainDebug", "chainValidator", "chainAggregationValidator">>),
   WithAspects(<<"userChainHook", "userNodeHook", "userVeto">>)}

\* a user's chain hook that runs before the shipped chain hook
HookThenDebug == WithAspects(<<"userChainHook", "chainDebug">>)

\* the definitions NewChainEngine is called with
NewDefs == {LinearDef, MergeDef, SwitchDef, EmptyLabelDef, DanglingDef, CycleDef, NoRoutesDef, DisabledDef,
            UnknownKindDef}
NewDsls == {EncodeChain(d) : d \in NewDefs} \cup {EmptyDsl, GarbageDsl}

\* a list with the shipped node hook
NodeDebugOnly == WithAspects(<<"nodeDebug">>)

\* the calls of NewChainEngine: every definition without options, a
\* definition with a switch and one with a cycle with each set of options,
\* the switch with the two chain hooks, and a failing end node with a node
\* hook
NewCalls ==
  {[dsl |-> d, opts |-> NoOpts] : d \in NewDsls}
    \cup {[dsl |-> EncodeChain(d), opts |-> o] : d \in {SwitchDef, CycleDef}, o \in OptionSets}
    \cup {[dsl |-> EncodeChain(SwitchDef), opts |-> HookThenDebug],
          [dsl |-> EncodeChain(BrokenEndDef), opts |-> NodeDebugOnly]}

\* the definitions ReloadSelf is called with
ReloadDefs == {FilterDef, CycleDef, DisabledDef, BadScriptDef}
ReloadDsls == {EncodeChain(d) : d \in ReloadDefs} \cup {GarbageDsl}

Inputs == {0, 5}

\* the chain output of the envelope OnMsg is called with: the nil map of a
\* new message, or what an earlier use of the envelope has left in it
CallerOutputs == {NilOutput, SomeOutput({<<"old", 1>>})}

(***************************************************************************)
(* State.                                                                  *)
(***************************************************************************)
(***************************************************************************)
(* Chain aggregation: a list of chains run one after the other on the same *)
(* envelope.  A sub-chain is a chain definition whose BaseInfo carries a   *)
(* priority and the terminalOnErr flag.                                    *)
(***************************************************************************)
AggShortCircuit == "shortCircuit"
AggParallel == "parallel"
AggTable == "policyTable"

SubChain(id, priority, terminalOnErr, script) ==
  [id |-> id, disabled |-> FALSE, priority |-> priority, terminalOnErr |-> terminalOnErr,
   nodes |-> <<Node("s", RuleSubTypeStart, "{}"), Node("e", RuleSubTypeEnd, script)>>,
   connections |-> <<Conn("s", "e", DefaultRelationType)>>]

ChainAggregation(id, type, chains) == [id |-> id, type |-> type, chains |-> chains]

\* the loop of checkChainAggregationCycles over the chains: the first
\* priority that is already in the map is an error
RECURSIVE priorityLoop(_, _, _)
priorityLoop(chains, i, seen) ==
  IF i > Len(chains) THEN "ok"
  ELSE IF chains[i].priority \in seen THEN "duplicatePriority"
  ELSE priorityLoop(chains, i + 1, seen \cup {chains[i].priority})

\* checkChainAggregationCycles without the test of the type
checkChainAggregationCyclesAnyType(def) == priorityLoop(def.chains, 1, {})

checkChainAggregationCycles(def) ==
  IF def.type # AggShortCircuit THEN "ok" ELSE priorityLoop(def.chains, 1, {})

IsOnChainAggregationBeforeInitAspect(a) == a = "chainAggregationValidator"

GetOnChainAggregationBeforeInitAspects(list) ==
  SelectSeq(SortByOrder(list), IsOnChainAggregationBeforeInitAspect)

\* the hooks of InitChainAggregationCtx in order, the first error wins
RECURSIVE aggBeforeInitLoop(_, _, _)
aggBeforeInitLoop(hooks, i, def) ==
  IF i > Len(hooks) THEN "ok"
  ELSE IF checkChainAggregationCycles(def) # "ok" THEN checkChainAggregationCycles(def)
  ELSE aggBeforeInitLoop(hooks, i + 1, def)

\* sort.Slice(chains, Priority(i) > Priority(j)) on a list shorter than 12
\* elements is an insertion sort: a chain moves left while its priority is
\* strictly greater
RECURSIVE insertByPriority(_, _)
insertByPriority(sorted, c) ==
  IF Len(sorted) = 0 THEN <<c>>
  ELSE IF c.priority > sorted[Len(sorted)].priority
       THEN Append(insertByPriority(SubSeq(sorted, 1, Len(sorted) - 1), c), sorted[Len(sorted)])
       ELSE Append(sorted, c)

RECURSIVE sortChainsLoop(_, _)
sortChainsLoop(chains, n) ==
  IF n = 0 THEN << >> ELSE insertByPriority(sortChainsLoop(chains, n - 1), chains[n])

\* the chains left in their declared order
sortChainsDeclared(chains) == chains

sortChains(chains) == sortChainsLoop(chains, Len(chains))

NoAggCtx ==
  [err |-> "", selfDefinition |-> ChainAggregation("", "", << >>), chains |-> << >>,
   beforeAspects |-> << >>, afterAspects |-> << >>]

\* InitChainAggregationCtx: the aggregation before-init hooks, the sort of
\* the definition's chains, InitChainCtx on every chain in sorted order,
\* the chain hooks
InitChainAggregationCtx(asp, def, order) ==
  LET hookErr == aggBeforeInitLoop(GetOnChainAggregationBeforeInitAspects(asp), 1, def)
      sorted == sortChains(def.chains)
      built == [i \in 1..Len(sorted) |-> InitChainCtx(asp, sorted[i], order, FALSE)]
      bad == {i \in 1..Len(sorted) : built[i].err # "ok"}
      firstBad == CHOOSE i \in bad : \A j \in bad : i <= j
  IN IF hookErr # "ok" THEN [NoAggCtx EXCEPT !.err = hookErr]
     ELSE IF bad # {} THEN [NoAggCtx EXCEPT !.err = built[firstBad].err]
     ELSE [err |-> "ok",
           selfDefinition |-> [def EXCEPT !.chains = sorted],
           chains |-> [i \in 1..Len(sorted) |-> built[i].ctx],
           beforeAspects |-> GetChainAspects(asp),
           afterAspects |-> GetChainAspects(asp)]

\* ChainCtx.execute from a node to the end of the traversal; r is the
\* outcome of the iteration on the current node
RECURSIVE executeFrom(_, _, _)
executeFrom(rc, cur, msg) ==
  CHOOSE res \in {IF r.outcome = "next" THEN executeFrom(rc, r.next, r.msg)
                  ELSE [err |-> r.outcome = "error", msg |-> r.msg] :
                    r \in {executeStep(rc, cur, msg, FALSE, FALSE)}} : TRUE

\* ChainCtx.OnMsg: execute from the root node
ChainCtxOnMsg(rc, msg) ==
  IF ~GetNodeById(rc, rc.rootNodeId) THEN [err |-> TRUE, msg |-> msg]
  ELSE executeFrom(rc, rc.rootNodeId, msg)

\* the local map `output` of ChainAggregationCtx.OnMsg and the field
\* RuleData.chainAggregationOutput, a nil map until OnMsg sets it
EmptyAggOutput == [k \in {} |-> NilOutput]
NilAggOutput == [isNil |-> TRUE, m |-> EmptyAggOutput]

\* a sub-chain error ends the aggregation whatever the chain's flag
subChainAbortsAlways(rc, err) == err

\* the test of the sub-chain's error in the loop of OnMsg
subChainAborts(rc, err) == err /\ rc.selfDefinition.terminalOnErr

\* output[chain.Id()] = msg.GetChainOutput()
snapshotOutput(output, rc, msg) ==
  [k \in DOMAIN output \cup {rc.selfDefinition.id} |->
     IF k = rc.selfDefinition.id THEN msg.chainOutput ELSE output[k]]

\* the end of OnMsg without the reset of the chain output
finishOnMsgKeepOutput(msg, output) == [msg |-> msg, chainAggregationOutput |-> [isNil |-> FALSE, m |-> output]]

\* msg.SetChainOutput(nil); msg.SetChainAggregationOutput(output)
finishOnMsg(msg, output) ==
  [msg |-> [msg EXCEPT !.chainOutput = NilOutput],
   chainAggregationOutput |-> [isNil |-> FALSE, m |-> output]]

NoAggCall ==
  [i |-> 0, msg |-> newRuleMsg(0), chainAggregationOutput |-> NilAggOutput,
   output |-> EmptyAggOutput, ret |-> "", ran |-> << >>]

VARIABLES
  created,        \* NewChainEngine has returned an engine
  aspects,        \* ChainEngine.aspects
  beforeAspects,  \* ChainEngine.beforeAspects
  afterAspects,   \* ChainEngine.afterAspects
  ctxs,           \* every ChainCtx built so far, in build order
  destroyed,      \* per built ChainCtx, how often its nodes were destroyed
  ruleChainCtx,   \* ChainEngine.ruleChainCtx: 0 is nil, else an index of ctxs
  initialized,    \* ChainEngine.initialized
  callbacks,      \* how often OnNew / OnUpdated / OnDeleted fired
  requests,       \* enginRequestsTotal by status
  admin,          \* position of the thread that calls ReloadSelf and Stop
  lastOp,         \* the last NewChainEngine / ReloadSelf / Stop call and its result
  calls,          \* the OnMsg calls: position, envelope, locals
  crashed,        \* an unrecovered panic ended the program
  nMsgs, nReloads, nStops,
  bpc, bdef, bverdict, bres,  \* build specification: a definition, the validator's verdict, the build
  apc,            \* aggregation specification: position of the program
  adef,           \* the aggregation definition as declared
  aasp,           \* the aspect list InitChainAggregationCtx is called with
  averdict,       \* the aggregation validator's verdict on adef
  aggCtx,         \* the result of InitChainAggregationCtx
  aggCall,        \* the OnMsg call on the aggregation: envelope, locals, history
  npc,            \* single-chain specification: position of the program
  nin,            \* the chain definition and the envelope ChainCtx.OnMsg is called with
  ncall,          \* the ChainCtx.OnMsg call: the chain built, current node, envelope, path
  ppc,            \* function specifications: position of the program
  pin,            \* the argument of the function
  pout,           \* its result
  jnode,          \* pool specification: the scripting node, its pool and the VMs created
  jcalls,         \* the OnMsg calls on the node: position, VM held, result
  tctx,           \* traversal specification: the ChainCtx the calls share
  tcalls          \* the ChainCtx.OnMsg calls: position, current node, envelope

engineVars == <<created, aspects, beforeAspects, afterAspects, ctxs, destroyed, ruleChainCtx,
                initialized, callbacks, requests, admin, lastOp, calls, crashed, nMsgs, nReloads,
                nStops>>
buildVars == <<bpc, bdef, bverdict, bres>>
aggVars == <<apc, adef, aasp, averdict, aggCtx, aggCall>>
nodeVars == <<npc, nin, ncall>>
pureVars == <<ppc, pin, pout>>
jsVars == <<jnode, jcalls>>
travVars == <<tctx, tcalls>>
vars == <<engineVars, buildVars, aggVars, nodeVars, pureVars, jsVars, travVars>>

\* the threads that call OnMsg: one caller, its calls follow one another
Calls == {1}
\* node steps of one traversal
MaxSteps == 5

IdleCall ==
  [pc |-> "idle", msg |-> newRuleMsg(0), x |-> 0, startCtx |-> 0, rc |-> 0, cur |-> "",
   err |-> FALSE, ret |-> "", status |-> 0 - 1, steps |-> 0, graphs |-> {},
   lastNode |-> "", lastLabel |-> "", priIn |-> EmptyMap, startOp |-> 0,
   bInvoked |-> 0, bErrAt |-> 0, afterRuns |-> 0, thrown |-> FALSE]

NoOp ==
  [seq |-> 0, op |-> "", dsl |-> EmptyDsl, opts |-> NoOpts, result |-> "", installed |-> 0,
   onStopped |-> FALSE]

EngineInit ==
  /\ created = FALSE
  /\ aspects = << >>
  /\ beforeAspects = << >>
  /\ afterAspects = << >>
  /\ ctxs = << >>
  /\ destroyed = << >>
  /\ ruleChainCtx = 0
  /\ initialized = 0
  /\ callbacks = [new |-> 0, updated |-> 0, deleted |-> 0]
  /\ requests = [ok |-> 0, failed |-> 0]
  /\ admin = "idle"
  /\ lastOp = NoOp
  /\ calls = [c \in Calls |-> IdleCall]
  /\ crashed = FALSE
  /\ nMsgs = 0
  /\ nReloads = 0
  /\ nStops = 0

BuildIdle ==
  /\ bpc = "off"
  /\ bdef = NoDef
  /\ bverdict = ""
  /\ bres = [err |-> "", ctx |-> NoChainCtx]

AggIdle ==
  /\ apc = "off"
  /\ adef = ChainAggregation("", "", << >>)
  /\ aasp = << >>
  /\ averdict = ""
  /\ aggCtx = NoAggCtx
  /\ aggCall = NoAggCall

NoNodeCall == [rc |-> NoChainCtx, cur |-> "", msg |-> newRuleMsg(0), ret |-> "", path |-> << >>]

NodeIdle ==
  /\ npc = "off"
  /\ nin = [def |-> NoDef, x |-> 0, priVars |-> EmptyMap, chainOutput |-> NilOutput]
  /\ ncall = NoNodeCall

PureIdle ==
  /\ ppc = "off"
  /\ pin = << >>
  /\ pout = << >>

JsIdle ==
  /\ jnode = << >>
  /\ jcalls = << >>

TravIdle ==
  /\ tctx = NoChainCtx
  /\ tcalls = << >>

Init == EngineInit /\ BuildIdle /\ AggIdle /\ NodeIdle /\ PureIdle /\ JsIdle /\ TravIdle

(***************************************************************************)
(* Engine facade: NewChainEngine, ReloadSelf, Stop.                        *)
(***************************************************************************)
\* reloadSelf up to the pointer store of init: parse, the disabled check,
\* InitChainCtx.  The aspect getters sort the engine's aspect slice in place.
reloadInit(asp, dsl, order, veto) ==
  LET dec == DecodeChain(dsl)
      built == InitChainCtx(asp, dec.def, order, veto)
  IN IF dec.err THEN [err |-> "parseError", ctx |-> NoChainCtx, aspects |-> asp]
     ELSE IF dec.def.disabled THEN [err |-> "disabled", ctx |-> NoChainCtx, aspects |-> asp]
     ELSE [err |-> built.err, ctx |-> built.ctx, aspects |-> SortByOrder(asp)]

\* initBuiltinsAspects
initBuiltinsAspects(asp) == SortByOrder(asp \o BuiltinsAspects)

VetoChoices(asp) == IF \E i \in 1..Len(asp) : asp[i] = "userVeto" THEN BOOLEAN ELSE {FALSE}

Op(op, dsl, opts, result, installed) ==
  [seq |-> lastOp.seq + 1, op |-> op, dsl |-> dsl, opts |-> opts, result |-> result,
   installed |-> installed, onStopped |-> lastOp.op = "Stop" /\ lastOp.result = "ok"]

NewChainEngine(dsl, opts) ==
  /\ lastOp.seq = 0
  /\ ~created
  /\ ~crashed
  /\ IF dsl.kind = "empty"
     THEN /\ lastOp' = Op("NewChainEngine", dsl, opts, "defNil", 0)
          /\ UNCHANGED <<created, aspects, beforeAspects, afterAspects, ctxs, destroyed,
                         ruleChainCtx, initialized, callbacks>>
     ELSE \E order \in CycleOrders(dsl.def.connections) :
          \E veto \in VetoChoices(IF opts.given THEN opts.aspects ELSE aspects) :
            LET r == reloadInit(IF opts.given THEN opts.aspects ELSE aspects, dsl, order, veto)
            IN /\ created' = TRUE
               /\ IF r.err # "ok"
                  THEN /\ aspects' = r.aspects
                       /\ lastOp' = Op("NewChainEngine", dsl, opts, r.err, 0)
                       /\ UNCHANGED <<beforeAspects, afterAspects, ctxs, destroyed,
                                      ruleChainCtx, initialized, callbacks>>
                  ELSE /\ ctxs' = Append(ctxs, r.ctx)
                       /\ destroyed' = Append(destroyed, 0)
                       /\ ruleChainCtx' = Len(ctxs) + 1
                       /\ aspects' = initBuiltinsAspects(r.aspects)
                       /\ beforeAspects' = GetChainAspects(aspects')
                       /\ afterAspects' = GetChainAspects(aspects')
                       /\ initialized' = 1
                       /\ callbacks' = [callbacks EXCEPT !.new = @ + 1]
                       /\ lastOp' = Op("NewChainEngine", dsl, opts, "ok", Len(ctxs) + 1)
  /\ UNCHANGED <<requests, admin, calls, crashed, nMsgs, nReloads, nStops, buildVars, aggVars, nodeVars, pureVars, jsVars, travVars>>

\* ReloadSelf that clears the installed chain before it builds the new one,
\* so that a failed build leaves the engine without a chain
ReloadSelfInitClearing(dsl) ==
  /\ created
  /\ ~crashed
  /\ admin = "idle"
  /\ nReloads < MaxReloads
  /\ nReloads' = nReloads + 1
  /\ \E order \in CycleOrders(dsl.def.connections) : \E veto \in VetoChoices(aspects) :
       LET r == reloadInit(aspects, dsl, order, veto)
       IN /\ aspects' = r.aspects
          /\ IF r.err # "ok"
             THEN /\ lastOp' = Op("ReloadSelf", dsl, NoOpts, r.err, ruleChainCtx)
                  /\ ruleChainCtx' = 0
                  /\ UNCHANGED <<ctxs, destroyed, admin>>
             ELSE /\ ctxs' = Append(ctxs, r.ctx)
                  /\ destroyed' = Append(destroyed, 0)
                  /\ ruleChainCtx' = Len(ctxs) + 1
                  /\ admin' = "reloading"
                  /\ lastOp' = Op("ReloadSelf", dsl, NoOpts, "pending", Len(ctxs) + 1)
  /\ UNCHANGED <<created, beforeAspects, afterAspects, initialized, callbacks, requests,
                 calls, crashed, nMsgs, nStops, buildVars, aggVars, nodeVars, pureVars, jsVars, travVars>>

\* ReloadSelf, first part: everything up to and including the atomic store
\* of the new ChainCtx pointer
ReloadSelfInit(dsl) ==
  /\ created
  /\ ~crashed
  /\ admin = "idle"
  /\ nReloads < MaxReloads
  /\ nReloads' = nReloads + 1
  /\ \E order \in CycleOrders(dsl.def.connections) : \E veto \in VetoChoices(aspects) :
       LET r == reloadInit(aspects, dsl, order, veto)
       IN /\ aspects' = r.aspects
          /\ IF r.err # "ok"
             THEN /\ lastOp' = Op("ReloadSelf", dsl, NoOpts, r.err, ruleChainCtx)
                  /\ UNCHANGED <<ctxs, destroyed, ruleChainCtx, admin>>
             ELSE /\ ctxs' = Append(ctxs, r.ctx)
                  /\ destroyed' = Append(destroyed, 0)
                  /\ ruleChainCtx' = Len(ctxs) + 1
                  /\ admin' = "reloading"
                  /\ lastOp' = Op("ReloadSelf", dsl, NoOpts, "pending", Len(ctxs) + 1)
  /\ UNCHANGED <<created, beforeAspects, afterAspects, initialized, callbacks, requests,
                 calls, crashed, nMsgs, nStops, buildVars, aggVars, nodeVars, pureVars, jsVars, travVars>>

\* a second part that takes the stored chain pointer for the initialized
\* flag: the pointer is already set, so OnUpdated fires on every build
ReloadSelfFinishByPointer ==
  /\ admin = "reloading"
  /\ ~crashed
  /\ admin' = "idle"
  /\ lastOp' = [lastOp EXCEPT !.result = "ok"]
  /\ IF ruleChainCtx # 0
     THEN /\ callbacks' = [callbacks EXCEPT !.updated = @ + 1]
          /\ UNCHANGED <<aspects, beforeAspects, afterAspects, initialized>>
     ELSE /\ aspects' = initBuiltinsAspects(aspects)
          /\ beforeAspects' = GetChainAspects(aspects')
          /\ afterAspects' = GetChainAspects(aspects')
          /\ initialized' = 1
          /\ callbacks' = [callbacks EXCEPT !.new = @ + 1]
  /\ UNCHANGED <<created, ctxs, destroyed, ruleChainCtx, requests, calls, crashed,
                 nMsgs, nReloads, nStops, buildVars, aggVars, nodeVars, pureVars, jsVars, travVars>>

\* ReloadSelf, second part: OnUpdated on an initialized engine, else the
\* built-in aspects, the initialized flag and OnNew
ReloadSelfFinish ==
  /\ admin = "reloading"
  /\ ~crashed
  /\ admin' = "idle"
  /\ lastOp' = [lastOp EXCEPT !.result = "ok"]
  /\ IF initialized = 1
     THEN /\ callbacks' = [callbacks EXCEPT !.updated = @ + 1]
          /\ UNCHANGED <<aspects, beforeAspects, afterAspects, initialized>>
     ELSE /\ aspects' = initBuiltinsAspects(aspects)
          /\ beforeAspects' = GetChainAspects(aspects')
          /\ afterAspects' = GetChainAspects(aspects')
          /\ initialized' = 1
          /\ callbacks' = [callbacks EXCEPT !.new = @ + 1]
  /\ UNCHANGED <<created, ctxs, destroyed, ruleChainCtx, requests, calls, crashed,
                 nMsgs, nReloads, nStops, buildVars, aggVars, nodeVars, pureVars, jsVars, travVars>>

\* Stop / forceStop: OnDeleted(e.Id()) dereferences the chain pointer, then
\* the nodes of the installed chain are destroyed and the pointer is cleared
Stop ==
  /\ created
  /\ ~crashed
  /\ admin = "idle"
  /\ nStops < MaxStops
  /\ nStops' = nStops + 1
  /\ IF ruleChainCtx = 0
     THEN /\ crashed' = TRUE
          /\ lastOp' = Op("Stop", EmptyDsl, NoOpts, "panic", 0)
          /\ UNCHANGED <<callbacks, destroyed, ruleChainCtx, initialized>>
     ELSE /\ callbacks' = [callbacks EXCEPT !.deleted = @ + 1]
          /\ destroyed' = [destroyed EXCEPT ![ruleChainCtx] = @ + 1]
          /\ ruleChainCtx' = 0
          /\ initialized' = 0
          /\ lastOp' = Op("Stop", EmptyDsl, NoOpts, "ok", 0)
          /\ UNCHANGED crashed
  /\ UNCHANGED <<created, aspects, beforeAspects, afterAspects, ctxs, requests, admin,
                 calls, nMsgs, nReloads, buildVars, aggVars, nodeVars, pureVars, jsVars, travVars>>

(***************************************************************************)
(* Engine.OnMsg, one call per slot c.  The call is a sequence of steps:    *)
(* the chain-before hooks, the load of the chain pointer with the lookup   *)
(* of the root node, one step per node of the traversal, the chain-after   *)
(* hooks, and the deferred metrics update.                                 *)
(***************************************************************************)
\* ChainEngine.onBefore / onAfter: every hook runs, the error returned is
\* the one of the hook that ran last
chainHooksErr(hooks, fail) == fail /\ Len(hooks) > 0 /\ HookMayFail(hooks[Len(hooks)])

FailChoices(hooks) == IF \E i \in 1..Len(hooks) : HookMayFail(hooks[i]) THEN BOOLEAN ELSE {FALSE}

\* a hook written by the user may panic as well
PanicChoices(hooks) == FailChoices(hooks)

FirstFallible(hooks) ==
  IF \E i \in 1..Len(hooks) : HookMayFail(hooks[i])
  THEN CHOOSE i \in 1..Len(hooks) :
         HookMayFail(hooks[i]) /\ \A j \in 1..(i - 1) : ~HookMayFail(hooks[j])
  ELSE 0

\* ChainEngine.onBefore: the loop invokes every hook and keeps the error of
\* the one invoked last; a panic of a hook leaves the loop.  invoked is
\* the number of hooks invoked, errAt the first one that returned an error
onBefore(hooks, fail, thrown) ==
  [err |-> ~thrown /\ chainHooksErr(hooks, fail),
   panic |-> thrown,
   invoked |-> IF thrown THEN FirstFallible(hooks) ELSE Len(hooks),
   errAt |-> IF fail /\ ~thrown THEN FirstFallible(hooks) ELSE 0]

OnMsgBefore(c, x) ==
  /\ created
  /\ ~crashed
  /\ calls[c].pc \in {"idle", "done"}
  /\ nMsgs < MaxMsgs
  /\ nMsgs' = nMsgs + 1
  /\ \E fail \in FailChoices(beforeAspects) : \E thrown \in PanicChoices(beforeAspects) :
     \E b \in {onBefore(beforeAspects, fail, thrown)} :
       calls' = [calls EXCEPT ![c] =
            [IdleCall EXCEPT !.pc = IF b.panic THEN "unwind" ELSE IF b.err THEN "defer" ELSE "load",
                             !.msg = newRuleMsg(x), !.x = x, !.startCtx = ruleChainCtx,
                             !.startOp = lastOp.seq,
                             !.err = b.err,
                             !.ret = IF b.panic THEN "panic" ELSE IF b.err THEN "hookError" ELSE "",
                             !.bInvoked = b.invoked, !.bErrAt = b.errAt, !.thrown = b.panic]]
  /\ UNCHANGED <<created, aspects, beforeAspects, afterAspects, ctxs, destroyed, ruleChainCtx,
                 initialized, callbacks, requests, admin, lastOp, crashed, nReloads, nStops,
                 buildVars, aggVars, nodeVars, pureVars, jsVars, travVars>>

\* e.ruleChainCtx.OnMsg(...): the receiver is read once; execute looks up
\* the root node.  A nil receiver panics, nothing recovers.  An error of
\* the traversal is returned through a shadowing err variable, the err the
\* deferred function reads is not assigned.
OnMsgLoad(c) ==
  /\ ~crashed
  /\ calls[c].pc = "load"
  /\ IF ruleChainCtx = 0
     THEN /\ crashed' = TRUE
          /\ calls' = [calls EXCEPT ![c] = [@ EXCEPT !.pc = "panic"]]
     ELSE /\ UNCHANGED crashed
          /\ calls' = [calls EXCEPT ![c] =
               IF GetNodeById(ctxs[ruleChainCtx], ctxs[ruleChainCtx].rootNodeId)
               THEN [@ EXCEPT !.pc = "exec", !.rc = ruleChainCtx,
                              !.cur = ctxs[ruleChainCtx].rootNodeId]
               ELSE [@ EXCEPT !.pc = "defer", !.rc = ruleChainCtx, !.ret = "rootNotFound"]]
  /\ UNCHANGED <<created, aspects, beforeAspects, afterAspects, ctxs, destroyed, ruleChainCtx,
                 initialized, callbacks, requests, admin, lastOp, nMsgs, nReloads, nStops,
                 buildVars, aggVars, nodeVars, pureVars, jsVars, travVars>>

\* a traversal that reads the engine's chain pointer again at every step
StepCtxLive(c) ==
  IF ruleChainCtx # 0 /\ calls[c].cur \in DOMAIN ctxs[ruleChainCtx].nodes
  THEN ruleChainCtx ELSE calls[c].rc

\* the graph a traversal step works on: the ChainCtx the call loaded
StepCtx(c) == calls[c].rc

OnMsgStep(c) ==
  /\ ~crashed
  /\ calls[c].pc = "exec"
  /\ calls[c].steps < MaxSteps
  /\ \E failB \in FailChoices(ctxs[StepCtx(c)].beforeAspects) :
     \E failA \in FailChoices(ctxs[StepCtx(c)].afterAspects) :
     \E thrownB \in PanicChoices(ctxs[StepCtx(c)].beforeAspects) :
     \E thrownA \in PanicChoices(ctxs[StepCtx(c)].afterAspects) :
     \E r \in {executeStep(ctxs[StepCtx(c)], calls[c].cur, calls[c].msg, failB, failA)} :
       calls' = [calls EXCEPT ![c] =
         IF thrownB
         THEN [@ EXCEPT !.pc = "unwind", !.ret = "panic", !.thrown = TRUE,
                        !.graphs = @ \cup {StepCtx(c)}]
         ELSE IF thrownA /\ r.afterRan
         THEN [@ EXCEPT !.msg = r.msg, !.pc = "unwind", !.ret = "panic", !.thrown = TRUE,
                        !.steps = @ + 1,
                        !.graphs = @ \cup {StepCtx(c)},
                        !.lastNode = calls[c].cur,
                        !.priIn = calls[c].msg.input.priVars,
                        !.afterRuns = @ + 1]
         ELSE [@ EXCEPT !.msg = r.msg,
                        !.pc = CASE r.outcome = "next" -> "exec"
                                 [] r.outcome = "done" -> "after"
                                 [] OTHER -> "defer",
                        !.cur = IF r.outcome = "next" THEN r.next ELSE @,
                        !.ret = IF r.outcome = "error" THEN r.err ELSE @,
                        !.steps = IF r.ran THEN @ + 1 ELSE @,
                        !.graphs = @ \cup {StepCtx(c)},
                        !.lastNode = IF r.ran THEN calls[c].cur ELSE @,
                        !.lastLabel = IF r.ran THEN r.label ELSE @,
                        !.priIn = IF r.ran THEN calls[c].msg.input.priVars ELSE @,
                        !.afterRuns = IF r.afterRan THEN @ + 1 ELSE @]]
  /\ UNCHANGED <<created, aspects, beforeAspects, afterAspects, ctxs, destroyed, ruleChainCtx,
                 initialized, callbacks, requests, admin, lastOp, crashed, nMsgs, nReloads,
                 nStops, buildVars, aggVars, nodeVars, pureVars, jsVars, travVars>>

OnMsgAfter(c) ==
  /\ ~crashed
  /\ calls[c].pc = "after"
  /\ \E fail \in FailChoices(afterAspects) : \E thrown \in PanicChoices(afterAspects) :
       LET err == chainHooksErr(afterAspects, fail)
       IN calls' = [calls EXCEPT ![c] =
            IF thrown
            THEN [@ EXCEPT !.pc = "unwind", !.ret = "panic", !.thrown = TRUE]
            ELSE [@ EXCEPT !.pc = "defer", !.err = err,
                           !.ret = IF err THEN "hookError" ELSE "ok"]]
  /\ UNCHANGED <<created, aspects, beforeAspects, afterAspects, ctxs, destroyed, ruleChainCtx,
                 initialized, callbacks, requests, admin, lastOp, crashed, nMsgs, nReloads,
                 nStops, buildVars, aggVars, nodeVars, pureVars, jsVars, travVars>>

\* the status label of the deferred metrics update
deferStatus(err) == IF err THEN 100 ELSE 0

\* the deferred function: status from err, e.Name() dereferences the chain
\* pointer, the request counter of (name, status) is incremented.  It runs
\* on a return and on the way out of a panic; nothing recovers the panic
\* of a hook, which goes on into the caller after the deferred function
OnMsgDefer(c) ==
  /\ ~crashed
  /\ calls[c].pc \in {"defer", "unwind"}
  /\ IF ruleChainCtx = 0
     THEN /\ crashed' = TRUE
          /\ calls' = [calls EXCEPT ![c] = [@ EXCEPT !.pc = "panic"]]
          /\ UNCHANGED requests
     ELSE /\ crashed' = (calls[c].pc = "unwind")
          /\ calls' = [calls EXCEPT ![c] =
               [@ EXCEPT !.pc = IF calls[c].pc = "unwind" THEN "panic" ELSE "done",
                         !.status = deferStatus(calls[c].err)]]
          /\ requests' = IF deferStatus(calls[c].err) = 100
                         THEN [requests EXCEPT !.failed = @ + 1]
                         ELSE [requests EXCEPT !.ok = @ + 1]
  /\ UNCHANGED <<created, aspects, beforeAspects, afterAspects, ctxs, destroyed, ruleChainCtx,
                 initialized, callbacks, admin, lastOp, nMsgs, nReloads, nStops, buildVars, aggVars, nodeVars, pureVars, jsVars, travVars>>

Next ==
  \/ \E new \in NewCalls : NewChainEngine(new.dsl, new.opts)
  \/ \E dsl \in ReloadDsls : ReloadSelfInit(dsl)
  \/ ReloadSelfFinish
  \/ Stop
  \/ \E c \in Calls : \E x \in Inputs : OnMsgBefore(c, x)
  \/ \E c \in Calls : OnMsgLoad(c)
  \/ \E c \in Calls : OnMsgStep(c)
  \/ \E c \in Calls : OnMsgAfter(c)
  \/ \E c \in Calls : OnMsgDefer(c)

Spec == Init /\ [][Next]_vars

(***************************************************************************)
(* Build specification: the validator and InitChainCtx applied to every    *)
(* definition with up to MaxNodes nodes and MaxEdges connections over a    *)
(* small alphabet of ids, kinds and labels.                                *)
(***************************************************************************)
GenIds == {"a", "b", "c"}
GenKinds == {RuleSubTypeStart, RuleSubTypeEnd}
GenLabels == {DefaultRelationType}
GenNodes == {Node(id, k, "{}") : id \in GenIds, k \in GenKinds}
GenConns == {Conn(f, t, l) : f \in GenIds, t \in GenIds, l \in GenLabels}
GenDefs == {Chain("gen", FALSE, ns, cs) : ns \in SeqsUpTo(GenNodes, MaxNodes),
                                          cs \in SeqsUpTo(GenConns, MaxEdges)}

\* the aspect lists InitChainCtx is called with
BuildAspects == {<< >>, <<"chainValidator">>}

BuildInit ==
  /\ JsIdle
  /\ TravIdle
  /\ EngineInit
  /\ bpc = "input"
  /\ bdef \in GenDefs
  /\ bverdict = ""
  /\ bres = [err |-> "", ctx |-> NoChainCtx]
  /\ AggIdle
  /\ NodeIdle
  /\ PureIdle

\* ChainValidator.OnChainBeforeInit on the definition
BuildValidate ==
  /\ bpc = "input"
  /\ bpc' = "validated"
  /\ \E order \in CycleOrders(bdef.connections) :
       bverdict' = ChainValidatorOnChainBeforeInit(bdef, order)
  /\ UNCHANGED <<bdef, bres, engineVars, aggVars, nodeVars, pureVars, jsVars, travVars>>

\* InitChainCtx on the definition
BuildChainCtx ==
  /\ bpc = "validated"
  /\ bpc' = "built"
  /\ \E asp \in BuildAspects : \E order \in CycleOrders(bdef.connections) :
       bres' = InitChainCtx(asp, bdef, order, FALSE)
  /\ UNCHANGED <<bdef, bverdict, engineVars, aggVars, nodeVars, pureVars, jsVars, travVars>>

BuildNext == BuildValidate \/ BuildChainCtx

SpecBuild == BuildInit /\ [][BuildNext]_vars

(***************************************************************************)
(* Arity specification: the validator and InitChainCtx applied to the      *)
(* definitions start s -> node t -> end e, for every kind of t and every   *)
(* list of up to MaxOut connections leaving t, with the connections        *)
(* leaving s and e varied as well and an optional connection from or to    *)
(* an id that no node declares.                                            *)
(***************************************************************************)
\* connections that leave the node t
MaxOut == 3

ArityKinds == RegisteredTypes
ArityLabels == {DefaultRelationType, TrueRelationType, FalseRelationType}

OutsOf(from, to, labelLists) ==
  {[i \in 1..Len(ls) |-> Conn(from, to, ls[i])] : ls \in labelLists}

ArityExtras ==
  {<< >>, <<Conn("ghost", "e", DefaultRelationType)>>, <<Conn("t", "ghost", DefaultRelationType)>>,
   <<Conn("s", "ghost", DefaultRelationType)>>}

ArityDef(k, so, to, eo, x) ==
  Chain("arity", FALSE,
        <<Node("s", RuleSubTypeStart, "{}"), Node("t", k, "{}"), Node("e", RuleSubTypeEnd, "{}")>>,
        so \o to \o eo \o x)

ArityInit ==
  /\ JsIdle
  /\ TravIdle
  /\ EngineInit
  /\ bpc = "input"
  /\ \E k \in ArityKinds, x \in ArityExtras :
       \E so \in OutsOf("s", "t", SeqsUpTo({DefaultRelationType, TrueRelationType}, 2)),
          to \in OutsOf("t", "e", SeqsUpTo(ArityLabels, MaxOut)),
          eo \in OutsOf("e", "s", SeqsUpTo({DefaultRelationType}, 1)) :
         bdef = ArityDef(k, so, to, eo, x)
  /\ bverdict = ""
  /\ bres = [err |-> "", ctx |-> NoChainCtx]
  /\ AggIdle
  /\ NodeIdle
  /\ PureIdle

SpecArity == ArityInit /\ [][BuildNext]_vars

(***************************************************************************)
(* Aggregation specification: InitChainAggregationCtx and                  *)
(* ChainAggregationCtx.OnMsg applied to every aggregation of up to         *)
(* MaxChains sub-chains.  A sub-chain is start -> end; its end script      *)
(* yields {terminate:true}, yields {terminate:false}, or fails.  The id of *)
(* a sub-chain is its position in the declaration.                         *)
(***************************************************************************)
\* sub-chains of a generated aggregation
MaxChains == 3

AggTypes == {AggShortCircuit, AggParallel, AggTable}
AggPriorities == {10, 20, 30}
AggBehaviours ==
  {[script |-> "{terminate:true}", terminalOnErr |-> FALSE],
   [script |-> "{terminate:false}", terminalOnErr |-> FALSE],
   [script |-> "{total:priVars.bonus+x}", terminalOnErr |-> TRUE],
   [script |-> "{total:priVars.bonus+x}", terminalOnErr |-> FALSE]}

\* the aggregation of n sub-chains with priorities ps and behaviours bs
AggDef(ty, n, ps, bs) ==
  ChainAggregation("agg", ty,
    [i \in 1..n |-> SubChain(ToString(i), ps[i], bs[i].terminalOnErr, bs[i].script)])

\* the aspect lists InitChainAggregationCtx is called with
AggAspects ==
  {<<"chainValidator", "chainAggregationValidator", "chainDebug">>,
   <<"chainValidator", "chainAggregationValidator", "userChainHook">>}

AggInit ==
  /\ JsIdle
  /\ TravIdle
  /\ EngineInit
  /\ BuildIdle
  /\ NodeIdle
  /\ PureIdle
  /\ apc = "input"
  /\ \E ty \in AggTypes, n \in 1..MaxChains :
       \E ps \in [1..n -> AggPriorities], bs \in [1..n -> AggBehaviours] :
         adef = AggDef(ty, n, ps, bs)
  /\ aasp \in AggAspects
  /\ averdict = ""
  /\ aggCtx = NoAggCtx
  /\ aggCall = NoAggCall

\* InitChainAggregationCtx on the definition; averdict records what the
\* aggregation validator says of it
AggBuild ==
  /\ apc = "input"
  /\ averdict' = checkChainAggregationCycles(adef)
  /\ \E order \in CycleOrders(<<Conn("s", "e", DefaultRelationType)>>) :
       aggCtx' = InitChainAggregationCtx(aasp, adef, order)
  /\ apc' = IF aggCtx'.err = "ok" THEN "ready" ELSE "rejected"
  /\ UNCHANGED <<adef, aasp, aggCall, engineVars, buildVars, nodeVars, pureVars, jsVars, travVars>>

\* the caller hands a fresh envelope to OnMsg; `output` is the empty map
AggOnMsg ==
  /\ apc = "ready"
  /\ apc' = "run"
  /\ aggCall' = [NoAggCall EXCEPT !.i = 1]
  /\ UNCHANGED <<adef, aasp, averdict, aggCtx, engineVars, buildVars, nodeVars, pureVars, jsVars, travVars>>

\* what one iteration leaves in the history: the chain, the chain output
\* the envelope held when the chain started, whether the chain failed, the
\* chain output afterwards, and the chain output the same chain leaves on an
\* envelope without chain output
RanEntry(rc, msg, run) ==
  [id |-> rc.selfDefinition.id, priority |-> rc.selfDefinition.priority,
   terminalOnErr |-> rc.selfDefinition.terminalOnErr,
   seen |-> msg.chainOutput, err |-> run.err, out |-> run.msg.chainOutput,
   own |-> ChainCtxOnMsg(rc, [msg EXCEPT !.chainOutput = NilOutput]).msg.chainOutput]

\* one iteration of the loop of OnMsg: the chain-before hooks, the
\* sub-chain, the test of its error, the chain-after hooks, the snapshot
AggOnMsgChain ==
  /\ apc = "run"
  /\ aggCall.i <= Len(aggCtx.chains)
  /\ \E failB \in FailChoices(aggCtx.beforeAspects), failA \in FailChoices(aggCtx.afterAspects) :
     \E rc \in {aggCtx.chains[aggCall.i]} : \E run \in {ChainCtxOnMsg(rc, aggCall.msg)} :
       LET ran == Append(aggCall.ran, RanEntry(rc, aggCall.msg, run))
       IN IF chainHooksErr(aggCtx.beforeAspects, failB)
          THEN /\ apc' = "done"
               /\ aggCall' = [aggCall EXCEPT !.ret = "hookError"]
          ELSE IF subChainAborts(rc, run.err)
          THEN /\ apc' = "done"
               /\ aggCall' = [aggCall EXCEPT !.ret = "chainError", !.msg = run.msg, !.ran = ran]
          ELSE IF chainHooksErr(aggCtx.afterAspects, failA)
          THEN /\ apc' = "done"
               /\ aggCall' = [aggCall EXCEPT !.ret = "hookError", !.msg = run.msg, !.ran = ran]
          ELSE /\ apc' = "run"
               /\ aggCall' = [aggCall EXCEPT !.i = @ + 1, !.msg = run.msg, !.ran = ran,
                                             !.output = snapshotOutput(@, rc, run.msg)]
  /\ UNCHANGED <<adef, aasp, averdict, aggCtx, engineVars, buildVars, nodeVars, pureVars, jsVars, travVars>>

\* after the loop: the chain output is reset, the collected map is stored
AggOnMsgEnd ==
  /\ apc = "run"
  /\ aggCall.i > Len(aggCtx.chains)
  /\ apc' = "done"
  /\ LET fin == finishOnMsg(aggCall.msg, aggCall.output)
     IN aggCall' = [aggCall EXCEPT !.ret = "ok", !.msg = fin.msg,
                                   !.chainAggregationOutput = fin.chainAggregationOutput]
  /\ UNCHANGED <<adef, aasp, averdict, aggCtx, engineVars, buildVars, nodeVars, pureVars, jsVars, travVars>>

AggNext == AggBuild \/ AggOnMsg \/ AggOnMsgChain \/ AggOnMsgEnd

SpecAgg == AggInit /\ [][AggNext]_vars

(***************************************************************************)
(* Aggregation of sub-chains with an assign node: start -> assign -> end,  *)
(* or start -> end.  The assign node writes bonus into priVars; the end    *)
(* script reads priVars.bonus, or returns a number and fails.              *)
(***************************************************************************)
SubChainAssign(id, priority, terminalOnErr, assign, script) ==
  IF assign = ""
  THEN SubChain(id, priority, terminalOnErr, script)
  ELSE [id |-> id, disabled |-> FALSE, priority |-> priority, terminalOnErr |-> terminalOnErr,
        nodes |-> <<Node("s", RuleSubTypeStart, "{}"), Node("a", RuleSubTypeExprAssign, assign),
                    Node("e", RuleSubTypeEnd, script)>>,
        connections |-> <<Conn("s", "a", DefaultRelationType), Conn("a", "e", DefaultRelationType)>>]

AggAssignBehaviours ==
  {[assign |-> "{bonus:10}", script |-> "{total:priVars.bonus+x}", terminalOnErr |-> FALSE],
   [assign |-> "{bonus:10}", script |-> "x", terminalOnErr |-> FALSE],
   [assign |-> "{bonus:10}", script |-> "x", terminalOnErr |-> TRUE],
   [assign |-> "", script |-> "{total:priVars.bonus+x}", terminalOnErr |-> FALSE]}

AggAssignDef(n, ps, bs) ==
  ChainAggregation("agg", AggParallel,
    [i \in 1..n |-> SubChainAssign(ToString(i), ps[i], bs[i].terminalOnErr, bs[i].assign,
                                   bs[i].script)])

AggAssignInit ==
  /\ EngineInit
  /\ BuildIdle
  /\ NodeIdle
  /\ PureIdle
  /\ JsIdle
  /\ TravIdle
  /\ apc = "input"
  /\ \E n \in 1..MaxChains :
       \E ps \in [1..n -> AggPriorities], bs \in [1..n -> AggAssignBehaviours] :
         adef = AggAssignDef(n, ps, bs)
  /\ aasp \in AggAspects
  /\ averdict = ""
  /\ aggCtx = NoAggCtx
  /\ aggCall = NoAggCall

SpecAggAssign == AggAssignInit /\ [][AggNext]_vars

(***************************************************************************)
(* Properties.                                                             *)
(***************************************************************************)
CountKind(ns, k) == Cardinality({i \in 1..Len(ns) : ns[i].type = k})

\* C9: for every definition the validator accepts and the build installs,
\* the node index has one entry per declared node and edgesFrom[id] is
\* exactly the declared connections from id, in declaration order.
C9_BuiltGraphIsDeclaredGraph ==
  (bpc = "built" /\ bverdict = "ok" /\ bres.err = "ok") =>
     /\ Cardinality(DOMAIN bres.ctx.nodes) = Len(bdef.nodes)
     /\ \A i \in 1..Len(bdef.nodes) : bres.ctx.nodes[bdef.nodes[i].id] = bdef.nodes[i]
     /\ \A id \in GenIds :
          RoutesAt(bres.ctx.nodeRoutes, id) = SelectSeq(bdef.connections, LAMBDA c : c.fromId = id)

\* C10: a definition the chain validator accepts has exactly one start
\* node and at least one end node.
C10_AcceptedHasOneStartAndAnEnd ==
  (bpc # "input" /\ bverdict = "ok") =>
     /\ CountKind(bdef.nodes, RuleSubTypeStart) = 1
     /\ CountKind(bdef.nodes, RuleSubTypeEnd) >= 1

(***************************************************************************)
(* Single-chain specification: ChainCtx.OnMsg on a chain built around one  *)
(* node t of each expression kind, for every script of the library that    *)
(* expr.Compile accepts for that kind (a script of the kind the node asks   *)
(* for, or one whose kind is known at run time only), on an envelope that  *)
(* is new or has been used before.                                         *)
(***************************************************************************)
NodeKinds == {RuleSubTypeEnd, RuleSubTypeExprAssign, RuleSubTypeExprSwitch, RuleSubTypeExprFilter}

\* the kind expr.Compile is told to expect: AsKind(reflect.Map),
\* AsKind(reflect.String), AsBool()
ExpectKind(type) ==
  CASE type = RuleSubTypeEnd -> "map"
    [] type = RuleSubTypeExprAssign -> "map"
    [] type = RuleSubTypeExprSwitch -> "string"
    [] type = RuleSubTypeExprFilter -> "bool"

DynamicScripts == {"x", "priVars.bonus"}

NodeScripts(type) ==
  CASE ExpectKind(type) = "map" -> {"{bonus:10}", "{total:priVars.bonus+x}"} \cup DynamicScripts
    [] ExpectKind(type) = "string" -> {"x==0?'A':'X'", "x==0?'default':''"} \cup DynamicScripts
    [] ExpectKind(type) = "bool" -> {"x>0"} \cup DynamicScripts

\* start -> t -> end, with the edges the validator asks of the kind of t
NodeDef(type, script) ==
  CASE type = RuleSubTypeEnd ->
         Chain("node", FALSE,
               <<Node("s", RuleSubTypeStart, "{}"), Node("t", type, script)>>,
               <<Conn("s", "t", DefaultRelationType)>>)
    [] type = RuleSubTypeExprAssign ->
         Chain("node", FALSE,
               <<Node("s", RuleSubTypeStart, "{}"), Node("t", type, script),
                 Node("e", RuleSubTypeEnd, "{ok:true}")>>,
               <<Conn("s", "t", DefaultRelationType), Conn("t", "e", DefaultRelationType)>>)
    [] type = RuleSubTypeExprSwitch ->
         Chain("node", FALSE,
               <<Node("s", RuleSubTypeStart, "{}"), Node("t", type, script),
                 Node("e", RuleSubTypeEnd, "{ok:true}"), Node("k", RuleSubTypeEnd, "{ok:false}")>>,
               <<Conn("s", "t", DefaultRelationType), Conn("t", "e", "A"),
                 Conn("t", "k", DefaultRelationType)>>)
    [] type = RuleSubTypeExprFilter ->
         Chain("node", FALSE,
               <<Node("s", RuleSubTypeStart, "{}"), Node("t", type, script),
                 Node("e", RuleSubTypeEnd, "{ok:true}"), Node("k", RuleSubTypeEnd, "{ok:false}")>>,
               <<Conn("s", "t", DefaultRelationType), Conn("t", "e", TrueRelationType),
                 Conn("t", "k", FalseRelationType)>>)

\* the scratch map of the envelope: empty, or left by an earlier call
CallerPriVars == {EmptyMap, {<<"bonus", 10>>}}

NodeInit ==
  /\ JsIdle
  /\ TravIdle
  /\ EngineInit
  /\ BuildIdle
  /\ AggIdle
  /\ PureIdle
  /\ npc = "input"
  /\ \E type \in NodeKinds : \E script \in NodeScripts(type) :
     \E x \in Inputs, pri \in CallerPriVars, out \in CallerOutputs :
       nin = [def |-> NodeDef(type, script), x |-> x, priVars |-> pri, chainOutput |-> out]
  /\ ncall = NoNodeCall

\* InitChainCtx with the validator, then the first lines of ChainCtx.execute
NodeBuild ==
  /\ npc = "input"
  /\ \E order \in CycleOrders(nin.def.connections) :
     \E r \in {InitChainCtx(<<"chainValidator">>, nin.def, order, FALSE)} :
       IF r.err # "ok"
       THEN /\ npc' = "rejected"
            /\ ncall' = [ncall EXCEPT !.ret = r.err]
       ELSE LET msg == [input |-> [x |-> nin.x, priVars |-> nin.priVars],
                        chainOutput |-> nin.chainOutput]
            IN IF GetNodeById(r.ctx, r.ctx.rootNodeId)
               THEN /\ npc' = "exec"
                    /\ ncall' = [NoNodeCall EXCEPT !.rc = r.ctx, !.cur = r.ctx.rootNodeId,
                                                   !.msg = msg]
               ELSE /\ npc' = "done"
                    /\ ncall' = [NoNodeCall EXCEPT !.rc = r.ctx, !.msg = msg,
                                                   !.ret = "rootNotFound"]
  /\ UNCHANGED <<nin, engineVars, buildVars, aggVars, pureVars, jsVars, travVars>>

\* one iteration of the loop of ChainCtx.execute
NodeExec ==
  /\ npc = "exec"
  /\ \E r \in {executeStep(ncall.rc, ncall.cur, ncall.msg, FALSE, FALSE)} :
       /\ npc' = IF r.outcome = "next" THEN "exec" ELSE "done"
       /\ ncall' = [ncall EXCEPT !.msg = r.msg,
                                 !.cur = IF r.outcome = "next" THEN r.next ELSE @,
                                 !.ret = CASE r.outcome = "next" -> @
                                           [] r.outcome = "done" -> "ok"
                                           [] OTHER -> r.err,
                                 !.path = Append(@, [id |-> ncall.cur, label |-> r.label])]
  /\ UNCHANGED <<nin, engineVars, buildVars, aggVars, pureVars, jsVars, travVars>>

NodeNext == NodeBuild \/ NodeExec

SpecNode == NodeInit /\ [][NodeNext]_vars

(***************************************************************************)
(* Sort specification: the getters of AspectList applied to every list of  *)
(* up to MaxAspects aspects, and to lists of LongList aspects that hold    *)
(* hooks of one kind with equal Order() followed by a hook of a smaller    *)
(* Order().                                                                *)
(***************************************************************************)
\* length of the short aspect lists
MaxAspects == 3
\* length of the long aspect lists
LongList == 13

SortNames == {"userChainHook", "userChainHookB", "userVeto", "nodeDebug"}

\* userChainHook at position p among userChainHookB, then userVeto
LongAspects(p) ==
  [i \in 1..LongList |-> IF i = LongList THEN "userVeto"
                         ELSE IF i = p THEN "userChainHook" ELSE "userChainHookB"]

SortInit ==
  /\ JsIdle
  /\ TravIdle
  /\ EngineInit
  /\ BuildIdle
  /\ AggIdle
  /\ NodeIdle
  /\ ppc = "input"
  /\ \/ \E n \in 0..MaxAspects : \E list \in [1..n -> SortNames] : pin = list
     \/ \E p \in 1..(LongList - 1) : pin = LongAspects(p)
  /\ pout = << >>

\* GetChainAspects, GetNodeAspects, GetOnChainBeforeInitAspects: sort the
\* list, then collect the hooks of the kind in list order
GetAspects ==
  /\ ppc = "input"
  /\ ppc' = "sorted"
  /\ \E sorted \in SortSliceOutcomes(pin) :
       pout' = [chain |-> SelectSeq(sorted, IsChainAspect),
                node |-> SelectSeq(sorted, IsNodeAspect),
                init |-> SelectSeq(sorted, IsOnChainBeforeInitAspect)]
  /\ UNCHANGED <<pin, engineVars, buildVars, aggVars, nodeVars, jsVars, travVars>>

SortNext == GetAspects

SpecSort == SortInit /\ [][SortNext]_vars

(***************************************************************************)
(* Switch specification: ExprSwitchNode.Init and OnMsg on a configuration  *)
(* with a script or a list of up to MaxCases cases.  A script is the list  *)
(* of its tokens: conditions, quoted labels, "?" and ":".                  *)
(***************************************************************************)
\* cases of one switch
MaxCases == 2

Case(case, then) == [case |-> case, then |-> then]

CaseTexts == {"x==0", "x>0", "other", " other ", ""}
ThenTexts == {"'A'", "'B'", " "}
SwitchScripts == {"", " ", "x==0?'A':'X'"}

\* strings.TrimSpace on the texts above
TrimSpace(str) ==
  CASE str = " " -> ""
    [] str = " other " -> "other"
    [] OTHER -> str

\* the tokens of a script given as text
Tokens(script) ==
  CASE script = "x==0?'A':'X'" -> <<"x==0", "?", "'A'", ":", "'X'">>
    [] OTHER -> << >>

\* genExprScriptByCases: the loop over the cases from case i on
RECURSIVE genExprScriptLoop(_, _, _)
genExprScriptLoop(cases, i, script) ==
  IF i > Len(cases) THEN [err |-> FALSE, script |-> script]
  ELSE IF Len(TrimSpace(cases[i].case)) = 0 \/ Len(TrimSpace(cases[i].then)) = 0
  THEN [err |-> TRUE, script |-> << >>]
  ELSE IF TrimSpace(cases[i].case) = "other"
  THEN genExprScriptLoop(cases, i + 1, script \o <<TrimSpace(cases[i].then)>>)
  ELSE genExprScriptLoop(cases, i + 1,
                         script \o <<TrimSpace(cases[i].case), "?", TrimSpace(cases[i].then), ":">>)

genExprScriptByCases(cases) == genExprScriptLoop(cases, 1, << >>)

\* the parser of expr.Compile on a list of tokens: an expression is an
\* operand, or operand ? expression : expression.  The result is the
\* position after the expression that starts at i, 0 when there is none
RECURSIVE parseExpr(_, _)
parseExpr(tokens, i) ==
  IF i > Len(tokens) \/ tokens[i] \in {"?", ":"} THEN 0
  ELSE IF i + 1 <= Len(tokens) /\ tokens[i + 1] = "?"
  THEN CHOOSE res \in {IF j = 0 \/ j > Len(tokens) THEN 0
                       ELSE IF tokens[j] # ":" THEN 0
                       ELSE parseExpr(tokens, j + 1) : j \in {parseExpr(tokens, i + 2)}} : TRUE
  ELSE i + 1

exprCompile(tokens) == parseExpr(tokens, 1) = Len(tokens) + 1

CondHolds(cond, x) ==
  CASE cond = "x==0" -> x = 0
    [] cond = "x>0" -> x > 0
    [] OTHER -> FALSE

LabelOf(token) ==
  CASE token = "'A'" -> "A"
    [] token = "'B'" -> "B"
    [] token = "'X'" -> "X"
    [] OTHER -> ""

\* vm.Run on a compiled list of tokens: the value of the expression at i
RECURSIVE vmRun(_, _, _)
vmRun(tokens, i, x) ==
  IF i + 1 <= Len(tokens) /\ tokens[i + 1] = "?"
  THEN IF CondHolds(tokens[i], x) THEN vmRun(tokens, i + 2, x)
       ELSE CHOOSE res \in {vmRun(tokens, j + 1, x) : j \in {parseExpr(tokens, i + 2)}} : TRUE
  ELSE LabelOf(tokens[i])

\* ExprSwitchNode.Init: the script of the configuration, or the script
\* generated from the cases when the trimmed script is empty
ExprSwitchNodeInit(config) ==
  IF Len(TrimSpace(config.script)) = 0
  THEN CHOOSE res \in {IF g.err THEN [err |-> "caseError", program |-> << >>]
                       ELSE IF ~exprCompile(g.script)
                            THEN [err |-> "compileError", program |-> << >>]
                       ELSE [err |-> "ok", program |-> g.script] :
                         g \in {genExprScriptByCases(config.cases)}} : TRUE
  ELSE IF ~exprCompile(Tokens(TrimSpace(config.script)))
       THEN [err |-> "compileError", program |-> << >>]
  ELSE [err |-> "ok", program |-> Tokens(TrimSpace(config.script))]

SwitchInit ==
  /\ JsIdle
  /\ TravIdle
  /\ EngineInit
  /\ BuildIdle
  /\ AggIdle
  /\ NodeIdle
  /\ ppc = "input"
  /\ \E script \in SwitchScripts, x \in Inputs, n \in 0..MaxCases :
     \E cs \in [1..n -> CaseTexts], ts \in [1..n -> ThenTexts] :
       pin = [script |-> script, cases |-> [i \in 1..n |-> Case(cs[i], ts[i])], x |-> x]
  /\ pout = [err |-> "", program |-> << >>, label |-> ""]

SwitchNodeInit ==
  /\ ppc = "input"
  /\ \E r \in {ExprSwitchNodeInit(pin)} :
       /\ ppc' = IF r.err = "ok" THEN "initialised" ELSE "rejected"
       /\ pout' = [pout EXCEPT !.err = r.err, !.program = r.program]
  /\ UNCHANGED <<pin, engineVars, buildVars, aggVars, nodeVars, jsVars, travVars>>

\* ExprSwitchNode.OnMsg on the compiled program
SwitchNodeOnMsg ==
  /\ ppc = "initialised"
  /\ ppc' = "done"
  /\ pout' = [pout EXCEPT !.label = vmRun(pout.program, 1, pin.x)]
  /\ UNCHANGED <<pin, engineVars, buildVars, aggVars, nodeVars, jsVars, travVars>>

SwitchNext == SwitchNodeInit \/ SwitchNodeOnMsg

SpecSwitch == SwitchInit /\ [][SwitchNext]_vars

(***************************************************************************)
(* Pool specification: concurrent OnMsg calls on one jsSwitch or jsFilter  *)
(* node.  Init compiles the script into a program that declares one        *)
(* function; the node's sync.Pool creates a VM by running the program.     *)
(* OnMsg is three steps: pool.Get, the call of the function, and the       *)
(* deferred pool.Put.                                                      *)
(***************************************************************************)
\* OnMsg calls on the node in one behaviour
MaxJsCalls == 2

JsCalls == 1..MaxJsCalls

JsKinds == {RuleSubTypeJsSwitch, RuleSubTypeJsFilter}

JsScripts == {"return msg.x>0;", "return 'default';", "return msg.x;", "throw 1;", "(("}

\* goja.Compile on the function built around the script
JsCompiles(script) == script # "(("

\* the function the script is the body of, called on the message input
RunJs(script, x) ==
  CASE script = "return msg.x>0;" -> BoolResult(x > 0)
    [] script = "return 'default';" -> StringResult("default")
    [] script = "return msg.x;" -> OtherResult("int")
    [] OTHER -> ErrorResult

\* the name of the function the program of Init declares in each VM
JsDeclared(type) == IF type = RuleSubTypeJsFilter THEN "jsFilter" ELSE "jsSwitch"

\* the name OnMsg looks up in the VM
JsLookedUp(type) == "jsSwitch"

IdleJsCall == [pc |-> "idle", x |-> 0, vm |-> 0, got |-> 0, put |-> 0, label |-> "", err |-> ""]

PoolInit ==
  /\ EngineInit
  /\ BuildIdle
  /\ AggIdle
  /\ NodeIdle
  /\ PureIdle
  /\ TravIdle
  /\ \E type \in JsKinds, script \in JsScripts :
       jnode = [type |-> type, script |-> script, state |-> "new", pool |-> {}, made |-> 0]
  /\ jcalls = [c \in JsCalls |-> IdleJsCall]

\* JsSwitchNode.Init, JsFilterNode.Init
JsNodeInit ==
  /\ jnode.state = "new"
  /\ jnode' = [jnode EXCEPT !.state = IF JsCompiles(jnode.script) THEN "ready" ELSE "rejected"]
  /\ UNCHANGED <<jcalls, engineVars, buildVars, aggVars, nodeVars, pureVars, travVars>>

\* pool.Get: an idle VM of the pool, or a VM made by pool.New when the
\* caller's share of the pool is empty
PoolGet(c) ==
  /\ jnode.state = "ready"
  /\ jcalls[c].pc = "idle"
  /\ \E x \in Inputs :
       \/ \E v \in jnode.pool :
            /\ jnode' = [jnode EXCEPT !.pool = @ \ {v}]
            /\ jcalls' = [jcalls EXCEPT ![c] = [@ EXCEPT !.pc = "run", !.x = x, !.vm = v, !.got = v]]
       \/ /\ jnode' = [jnode EXCEPT !.made = @ + 1]
          /\ jcalls' = [jcalls EXCEPT ![c] = [@ EXCEPT !.pc = "run", !.x = x,
                                                       !.vm = jnode.made + 1,
                                                       !.got = jnode.made + 1]]
  /\ UNCHANGED <<engineVars, buildVars, aggVars, nodeVars, pureVars, travVars>>

\* the body of OnMsg between Get and the deferred Put: vm.Get of the
\* function, the call, and the check of the kind of the result
JsOnMsgResult(type, script, x) ==
  IF JsLookedUp(type) # JsDeclared(type) THEN [label |-> "", err |-> "notFound"]
  ELSE CHOOSE res \in {IF out.kind = "error" THEN [label |-> "", err |-> "thrown"]
                       ELSE IF type = RuleSubTypeJsFilter
                       THEN IF out.kind = "bool"
                            THEN [label |-> IF out.b THEN TrueRelationType ELSE FalseRelationType,
                                  err |-> ""]
                            ELSE [label |-> "", err |-> "format"]
                       ELSE IF out.kind = "string" THEN [label |-> out.s, err |-> ""]
                       ELSE [label |-> "", err |-> "format"] : out \in {RunJs(script, x)}} : TRUE

JsRun(c) ==
  /\ jcalls[c].pc = "run"
  /\ \E r \in {JsOnMsgResult(jnode.type, jnode.script, jcalls[c].x)} :
       jcalls' = [jcalls EXCEPT ![c] = [@ EXCEPT !.pc = "exit", !.label = r.label, !.err = r.err]]
  /\ UNCHANGED <<jnode, engineVars, buildVars, aggVars, nodeVars, pureVars, travVars>>

\* a Put that is made on the successful return only
PoolPutOnSuccess(c) ==
  /\ jcalls[c].pc = "exit"
  /\ jnode' = [jnode EXCEPT !.pool = IF jcalls[c].err = "" THEN @ \cup {jcalls[c].vm} ELSE @]
  /\ jcalls' = [jcalls EXCEPT ![c] = [@ EXCEPT !.pc = "done", !.vm = 0,
                                               !.put = IF jcalls[c].err = "" THEN jcalls[c].vm ELSE 0]]
  /\ UNCHANGED <<engineVars, buildVars, aggVars, nodeVars, pureVars, travVars>>

\* defer x.pool.Put(vm), on every return of OnMsg
PoolPut(c) ==
  /\ jcalls[c].pc = "exit"
  /\ jnode' = [jnode EXCEPT !.pool = @ \cup {jcalls[c].vm}]
  /\ jcalls' = [jcalls EXCEPT ![c] = [@ EXCEPT !.pc = "done", !.vm = 0, !.put = jcalls[c].vm]]
  /\ UNCHANGED <<engineVars, buildVars, aggVars, nodeVars, pureVars, travVars>>

\* sync.Pool may drop an idle item at any time (garbage collection)
PoolDrop ==
  /\ \E v \in jnode.pool : jnode' = [jnode EXCEPT !.pool = @ \ {v}]
  /\ UNCHANGED <<jcalls, engineVars, buildVars, aggVars, nodeVars, pureVars, travVars>>

PoolNext ==
  \/ JsNodeInit
  \/ \E c \in JsCalls : PoolGet(c) \/ JsRun(c) \/ PoolPut(c)
  \/ PoolDrop

SpecPool == PoolInit /\ [][PoolNext]_vars

(***************************************************************************)
(* Traversal specification: concurrent ChainCtx.OnMsg calls on one built   *)
(* ChainCtx, each on an envelope of its own.  A call is the first lines of *)
(* execute and then one step per iteration of its loop; the steps of the   *)
(* calls interleave.                                                       *)
(***************************************************************************)
\* concurrent OnMsg calls on the ChainCtx
MaxTravCalls == 2

TravCalls == 1..MaxTravCalls

TravDefs == {LinearDef, MergeDef, FilterDef, SwitchDef, BrokenEndDef}

IdleTravCall ==
  [pc |-> "idle", x |-> 0, cur |-> "", msg |-> newRuleMsg(0), ret |-> "", rc0 |-> NoChainCtx,
   steps |-> 0]

TravInit ==
  /\ EngineInit
  /\ BuildIdle
  /\ AggIdle
  /\ NodeIdle
  /\ PureIdle
  /\ JsIdle
  /\ \E def \in TravDefs : \E order \in CycleOrders(def.connections) :
     \E r \in {InitChainCtx(<<"chainValidator">>, def, order, FALSE)} :
       /\ r.err = "ok"
       /\ tctx = r.ctx
  /\ tcalls = [c \in TravCalls |-> IdleTravCall]

\* the caller makes its envelope; execute looks up the root node
TravStart(c) ==
  /\ tcalls[c].pc = "idle"
  /\ \E x \in Inputs :
       tcalls' = [tcalls EXCEPT ![c] =
                    IF GetNodeById(tctx, tctx.rootNodeId)
                    THEN [@ EXCEPT !.pc = "exec", !.x = x, !.msg = newRuleMsg(x),
                                   !.cur = tctx.rootNodeId, !.rc0 = tctx]
                    ELSE [@ EXCEPT !.pc = "done", !.x = x, !.msg = newRuleMsg(x),
                                   !.ret = "rootNotFound", !.rc0 = tctx]]
  /\ UNCHANGED <<tctx, engineVars, buildVars, aggVars, nodeVars, pureVars, jsVars>>

\* the routes of rc without the first edge from id to next
RoutesWithout(rc, id, next) ==
  [rc EXCEPT !.nodeRoutes[id] =
     LET hits == {i \in 1..Len(@) : @[i].toId = next}
         k == CHOOSE i \in hits : \A j \in hits : i <= j
     IN SubSeq(@, 1, k - 1) \o SubSeq(@, k + 1, Len(@))]

\* a step that removes from the graph the edge it follows
TravStepConsumingEdge(c) ==
  /\ tcalls[c].pc = "exec"
  /\ \E r \in {executeStep(tctx, tcalls[c].cur, tcalls[c].msg, FALSE, FALSE)} :
       /\ tcalls' = [tcalls EXCEPT ![c] =
                       [@ EXCEPT !.pc = IF r.outcome = "next" THEN "exec" ELSE "done",
                                 !.msg = r.msg,
                                 !.cur = IF r.outcome = "next" THEN r.next ELSE @,
                                 !.ret = CASE r.outcome = "next" -> @
                                           [] r.outcome = "done" -> "ok"
                                           [] OTHER -> r.err,
                                 !.steps = @ + 1]]
       /\ tctx' = IF r.outcome = "next" THEN RoutesWithout(tctx, tcalls[c].cur, r.next) ELSE tctx
  /\ UNCHANGED <<engineVars, buildVars, aggVars, nodeVars, pureVars, jsVars>>

\* one iteration of the loop of ChainCtx.execute in call c
TravStep(c) ==
  /\ tcalls[c].pc = "exec"
  /\ \E r \in {executeStep(tctx, tcalls[c].cur, tcalls[c].msg, FALSE, FALSE)} :
       tcalls' = [tcalls EXCEPT ![c] =
                    [@ EXCEPT !.pc = IF r.outcome = "next" THEN "exec" ELSE "done",
                              !.msg = r.msg,
                              !.cur = IF r.outcome = "next" THEN r.next ELSE @,
                              !.ret = CASE r.outcome = "next" -> @
                                        [] r.outcome = "done" -> "ok"
                                        [] OTHER -> r.err,
                              !.steps = @ + 1]]
  /\ UNCHANGED <<tctx, engineVars, buildVars, aggVars, nodeVars, pureVars, jsVars>>

TravNext == \E c \in TravCalls : TravStart(c) \/ TravStep(c)

SpecTrav == TravInit /\ [][TravNext]_vars

(***************************************************************************)
(* Properties of the engine specification.                                 *)
(***************************************************************************)
\* the step of call c that executes a node and gets a label from it
NodeStepOf(c) ==
  /\ calls[c].pc = "exec"
  /\ calls'[c].steps = calls[c].steps + 1
  /\ calls'[c].ret \notin {"hookError", "nodeError", "panic"}

LabelledEdges(rc, id, label) ==
  {i \in 1..Len(RoutesAt(rc.nodeRoutes, id)) : RoutesAt(rc.nodeRoutes, id)[i].type = label}

\* C1: the traversal starts at the root node; after a node step an empty
\* label ends the traversal successfully, a non-empty label moves it to the
\* target of an outgoing edge of the current node with that label, and
\* without such an edge the call gets a missing-branch error and executes
\* no further node.
C1_TraversalFollowsLabels ==
  [][\A c \in Calls :
       LET rc == ctxs[calls[c].rc]
           cur == calls[c].cur
           label == calls'[c].lastLabel
           routes == RoutesAt(rc.nodeRoutes, cur)
       IN /\ (calls[c].pc = "load" /\ calls'[c].pc = "exec") =>
               calls'[c].cur = ctxs[calls'[c].rc].rootNodeId
          /\ NodeStepOf(c) =>
               /\ label = "" => calls'[c].pc = "after"
               /\ (label # "" /\ calls'[c].pc = "exec") =>
                    \E i \in LabelledEdges(rc, cur, label) : routes[i].toId = calls'[c].cur
               /\ (label # "" /\ LabelledEdges(rc, cur, label) = {}) =>
                    /\ calls'[c].pc = "defer"
                    /\ calls'[c].ret \in {"branchMissing", "nodeNotFound"}
               /\ (label # "" /\ \E i \in LabelledEdges(rc, cur, label) :
                                    GetNodeById(rc, routes[i].toId)) =>
                    calls'[c].pc = "exec"
               /\ label # "" => calls'[c].pc \in {"exec", "defer"}
          /\ (calls[c].pc \in {"defer", "done"} /\ nMsgs' = nMsgs) =>
               calls'[c].steps = calls[c].steps]_vars

\* a switch yielded a label without an edge after two node steps, and the
\* call returned the missing-branch error
C1_Witness ==
  \E c \in Calls : /\ calls[c].pc = "done"
                   /\ calls[c].ret = "branchMissing"
                   /\ calls[c].lastLabel = "X"
                   /\ calls[c].steps = 2

\* C2: after a successful OnMsg the chain output is the mapping returned by
\* the script of the end node that was reached, and priVars is empty.
C2_SuccessSetsOutputAndClearsPriVars ==
  \A c \in Calls :
    (calls[c].pc = "done" /\ calls[c].ret = "ok") =>
       LET node == ctxs[calls[c].rc].nodes[calls[c].lastNode]
       IN /\ node.type = RuleSubTypeEnd
          /\ calls[c].msg.chainOutput =
               SomeOutput(RunScript(node.script, [x |-> calls[c].x, priVars |-> calls[c].priIn]).m)
          /\ calls[c].msg.input.priVars = EmptyMap

\* the edge relation of a connection list has a cycle: some node reaches
\* itself along one or more edges
EdgePairs(cs) == {<<cs[i].fromId, cs[i].toId>> : i \in 1..Len(cs)}

Compose(S, R) == {<<pq[1][1], pq[2][2]>> : pq \in {pq \in S \X R : pq[1][2] = pq[2][1]}}

RECURSIVE Closure(_, _)
Closure(R, S) == IF Compose(S, R) \subseteq S THEN S ELSE Closure(R, S \cup Compose(S, R))

HasCycleRef(cs) == \E p \in Closure(EdgePairs(cs), EdgePairs(cs)) : p[1] = p[2]

\* C3: NewChainEngine on a definition whose connections contain a cycle
\* returns the cycle-detected error and installs no graph, whatever the
\* options are.
C3_NewChainEngineRejectsCycle ==
  (lastOp.op = "NewChainEngine" /\ lastOp.dsl.kind = "json"
     /\ HasCycleRef(lastOp.dsl.def.connections)) =>
       /\ lastOp.result = "cycle"
       /\ lastOp.installed = 0

\* ChainEngine.DSL(): the encoded definition of the installed chain
EngineDSL(rcc, cs) == IF rcc = 0 THEN EmptyDsl ELSE EncodeChain(cs[rcc].selfDefinition)

FailedReload(op) == op.op = "ReloadSelf" /\ op.result \notin {"ok", "pending"}

\* C4: a ReloadSelf that fails leaves the installed graph, the DSL and the
\* initialized flag as they were and fires neither OnNew nor OnUpdated, and
\* an OnMsg that follows it traverses the graph installed before.
C4_FailedReloadKeepsGraph ==
  [][/\ (lastOp'.seq # lastOp.seq /\ FailedReload(lastOp')) =>
          /\ ruleChainCtx' = ruleChainCtx
          /\ ctxs' = ctxs
          /\ destroyed' = destroyed
          /\ EngineDSL(ruleChainCtx', ctxs') = EngineDSL(ruleChainCtx, ctxs)
          /\ initialized' = initialized
          /\ callbacks' = callbacks
          /\ lastOp'.installed = ruleChainCtx
     /\ \A c \in Calls :
          (FailedReload(lastOp') /\ lastOp'.installed # 0 /\ calls'[c].startOp = lastOp'.seq
             /\ calls'[c].pc \in {"exec", "after", "defer", "done"} /\ calls'[c].rc # 0) =>
               /\ calls'[c].rc = lastOp'.installed
               /\ calls'[c].graphs \subseteq {lastOp'.installed}]_vars

\* a reload was refused for a cycle on an engine with a chain, and the call
\* started after it ran the nodes of the chain installed before
C4_Witness ==
  \E c \in Calls : /\ FailedReload(lastOp)
                   /\ lastOp.result = "cycle"
                   /\ lastOp.installed # 0
                   /\ calls[c].startOp = lastOp.seq
                   /\ calls[c].pc = "done"
                   /\ calls[c].steps > 0
                   /\ calls[c].graphs = {lastOp.installed}

AfterLoad(c) == calls[c].pc \in {"exec", "after", "defer", "done"} /\ calls[c].rc # 0

StartedAfterReload(c) ==
  calls[c].startOp = lastOp.seq /\ lastOp.op = "ReloadSelf" /\ lastOp.result = "ok"

C6_StopIsIdempotent ==
  (lastOp.op = "Stop" /\ lastOp.onStopped) =>
     /\ lastOp.result = "ok"
     /\ ~crashed
     /\ ruleChainCtx = 0
     /\ initialized = 0
     /\ \A i \in 1..Len(destroyed) : destroyed[i] <= 1

IsError(ret) == ret # "ok"

\* C7: a finished OnMsg call has incremented the request counter once, with
\* status 100 if and only if it returned an error and with status 0 if and
\* only if it returned success.
C7_StatusIffError ==
  /\ \A c \in Calls :
       calls[c].pc = "done" =>
         /\ calls[c].status = 100 <=> IsError(calls[c].ret)
         /\ calls[c].status = 0 <=> ~IsError(calls[c].ret)
  /\ requests.ok + requests.failed =
       nMsgs - Cardinality({c \in Calls : calls[c].pc \in {"load", "exec", "after", "defer", "panic"}})

\* the target of the connection declared first with the source and label
FirstDeclared(cs, from, label) ==
  LET hits == {i \in 1..Len(cs) : cs[i].fromId = from /\ cs[i].type = label}
  IN cs[CHOOSE i \in hits : \A j \in hits : i <= j].toId

\* C8: a node step that moves on follows the connection that is declared
\* first, in the definition's connections, with the node as source and the
\* emitted label.
C8_FirstDeclaredEdgeWins ==
  \A c \in Calls :
    (calls[c].pc = "exec" /\ calls[c].steps > 0) =>
       calls[c].cur = FirstDeclared(ctxs[calls[c].rc].selfDefinition.connections,
                                    calls[c].lastNode, calls[c].lastLabel)

(***************************************************************************)
(* Properties of the arity specification.                                  *)
(***************************************************************************)
\* the declared connections that leave node id, and the nodes of a kind
OutOf(def, id) == SelectSeq(def.connections, LAMBDA c : c.fromId = id)

NodesOfKind(def, kinds) == {i \in 1..Len(def.nodes) : def.nodes[i].type \in kinds}

Accepted == bpc # "input" /\ bverdict = "ok"

\* C11: a definition the chain validator accepts has exactly one outgoing
\* edge, labelled default, for every start and exprAssign node and no
\* outgoing edge for every end node; any other definition is rejected.
C11_StartAssignEndArity ==
  Accepted =>
    /\ \A i \in NodesOfKind(bdef, {RuleSubTypeStart, RuleSubTypeExprAssign}) :
         /\ Len(OutOf(bdef, bdef.nodes[i].id)) = 1
         /\ OutOf(bdef, bdef.nodes[i].id)[1].type = DefaultRelationType
    /\ \A i \in NodesOfKind(bdef, {RuleSubTypeEnd}) : Len(OutOf(bdef, bdef.nodes[i].id)) = 0

\* an accepted definition with an exprAssign node
C11_Witness ==
  /\ Accepted
  /\ NodesOfKind(bdef, {RuleSubTypeExprAssign}) # {}
  /\ NodesOfKind(bdef, {RuleSubTypeEnd}) # {}

\* C12: a definition the chain validator accepts has, for every exprFilter
\* and jsFilter node, exactly two outgoing edges whose labels are true and
\* false.
C12_FilterArity ==
  Accepted =>
    \A i \in NodesOfKind(bdef, {RuleSubTypeExprFilter, RuleSubTypeJsFilter}) :
      LET out == OutOf(bdef, bdef.nodes[i].id)
      IN /\ Len(out) = 2
         /\ {out[j].type : j \in 1..Len(out)} = {TrueRelationType, FalseRelationType}

\* an accepted definition with a jsFilter node
C12_Witness == Accepted /\ NodesOfKind(bdef, {RuleSubTypeJsFilter}) # {}

\* C13: a definition the chain validator accepts has, for every exprSwitch
\* and jsSwitch node, at least one outgoing edge and a default among the
\* labels of its outgoing edges.
C13_SwitchArity ==
  Accepted =>
    \A i \in NodesOfKind(bdef, {RuleSubTypeExprSwitch, RuleSubTypeJsSwitch}) :
      LET out == OutOf(bdef, bdef.nodes[i].id)
      IN /\ Len(out) >= 1
         /\ \E j \in 1..Len(out) : out[j].type = DefaultRelationType

\* an accepted definition with an exprSwitch node that has a default edge
\* and two more edges
C13_Witness ==
  /\ Accepted
  /\ \E i \in NodesOfKind(bdef, {RuleSubTypeExprSwitch}) : Len(OutOf(bdef, bdef.nodes[i].id)) = 3

DeclaredIds(def) == {def.nodes[i].id : i \in 1..Len(def.nodes)}

UnknownEnds(def) ==
  {i \in 1..Len(def.connections) :
     def.connections[i].fromId \notin DeclaredIds(def) \/ def.connections[i].toId \notin DeclaredIds(def)}

\* C14: the chain validator rejects every definition with a connection
\* whose fromId or toId is not the id of a declared node; in an accepted
\* definition every connection joins two declared nodes.
C14_EdgesJoinDeclaredNodes ==
  /\ (bpc # "input" /\ UnknownEnds(bdef) # {}) => bverdict # "ok"
  /\ Accepted => UnknownEnds(bdef) = {}

\* a definition whose only flaw is a connection to an undeclared id, and
\* which was rejected for it
C14_Witness ==
  /\ bpc # "input"
  /\ bverdict = "unknownNode"
  /\ \E i \in UnknownEnds(bdef) : bdef.connections[i].toId \notin DeclaredIds(bdef)

(***************************************************************************)
(* Properties of the aggregation specification.                            *)
(***************************************************************************)
AggStarted == apc \in {"run", "done"}

\* the chain output carries terminate=true
Terminates(out) == ~out.isNil /\ <<"terminate", 1>> \in out.m

RanIds == {aggCall.ran[j].id : j \in 1..Len(aggCall.ran)}

\* C15: in an aggregation of type shortCircuit no sub-chain is executed
\* after a sub-chain whose chain output carries terminate=true, and after a
\* successful OnMsg chainAggregationOutput has entries for the executed
\* sub-chains only.
C15_ShortCircuitStops ==
  (AggStarted /\ adef.type = AggShortCircuit) =>
    /\ \A j \in 1..Len(aggCall.ran) : \A i \in 1..(j - 1) : ~Terminates(aggCall.ran[i].out)
    /\ (apc = "done" /\ aggCall.ret = "ok") =>
         DOMAIN aggCall.chainAggregationOutput.m = RanIds

\* C16: every sub-chain starts with an empty chain output, and the entry
\* collected for a sub-chain is the chain output that this sub-chain's own
\* end node produced.
C16_SubChainSeesCleanOutput ==
  AggStarted =>
    \A j \in 1..Len(aggCall.ran) :
      /\ aggCall.ran[j].seen.isNil \/ aggCall.ran[j].seen.m = {}
      /\ aggCall.ran[j].id \in DOMAIN aggCall.output =>
           aggCall.output[aggCall.ran[j].id] = aggCall.ran[j].own

TerminalError(j) == aggCall.ran[j].err /\ aggCall.ran[j].terminalOnErr

\* C17: an error of a sub-chain whose terminalOnErr is true ends OnMsg at
\* once with that error, no later sub-chain runs and chainAggregationOutput
\* stays unset; an error of a sub-chain whose terminalOnErr is false does
\* not end it: unless a hook or a terminal sub-chain fails, every sub-chain
\* is executed in the order of the context and OnMsg returns success.
C17_TerminalOnErrDecides ==
  AggStarted =>
    /\ \A j \in 1..Len(aggCall.ran) :
         /\ aggCall.ran[j].id = aggCtx.chains[j].selfDefinition.id
         /\ TerminalError(j) =>
              /\ j = Len(aggCall.ran)
              /\ apc = "done"
              /\ aggCall.ret = "chainError"
              /\ aggCall.chainAggregationOutput.isNil
    /\ (/\ apc = "done"
        /\ aggCall.ret # "hookError"
        /\ \A j \in 1..Len(aggCall.ran) : ~TerminalError(j)) =>
         /\ aggCall.ret = "ok"
         /\ Len(aggCall.ran) = Len(aggCtx.chains)

\* a failing sub-chain with terminalOnErr false was followed by further
\* sub-chains, then a failing sub-chain with terminalOnErr true ended the
\* call before the last sub-chain
C17_Witness ==
  /\ apc = "done"
  /\ Len(aggCall.ran) < Len(aggCtx.chains)
  /\ \E i, j \in 1..Len(aggCall.ran) :
       /\ i < j
       /\ aggCall.ran[i].err
       /\ ~aggCall.ran[i].terminalOnErr
       /\ TerminalError(j)

\* C18: the sub-chains are executed in descending order of priority: a
\* sub-chain is never executed after one with a lower priority.
C18_DescendingPriority ==
  AggStarted =>
    \A i, j \in 1..Len(aggCall.ran) :
      i < j => aggCall.ran[i].priority >= aggCall.ran[j].priority

\* three sub-chains declared in ascending order of priority have all run
C18_Witness ==
  /\ apc = "done"
  /\ Len(adef.chains) = 3
  /\ Len(aggCall.ran) = 3
  /\ adef.chains[1].priority < adef.chains[2].priority
  /\ adef.chains[2].priority < adef.chains[3].priority

\* the short-circuit of the specification: type shortCircuit and an
\* executed sub-chain whose chain output carries terminate=true
Tripped ==
  adef.type = AggShortCircuit /\ \E j \in 1..Len(aggCall.ran) : Terminates(aggCall.ran[j].out)

\* C19: after a successful OnMsg in which no short-circuit tripped,
\* chainAggregationOutput has exactly one entry for every sub-chain, keyed
\* by its id, and the chain output is empty.
C19_OneEntryPerSubChain ==
  (apc = "done" /\ aggCall.ret = "ok" /\ ~Tripped) =>
    /\ ~aggCall.chainAggregationOutput.isNil
    /\ DOMAIN aggCall.chainAggregationOutput.m = {adef.chains[i].id : i \in 1..Len(adef.chains)}
    /\ aggCall.msg.chainOutput.isNil \/ aggCall.msg.chainOutput.m = {}

\* a successful call on three sub-chains, the last of which set a chain
\* output
C19_Witness ==
  /\ apc = "done"
  /\ aggCall.ret = "ok"
  /\ ~Tripped
  /\ Len(adef.chains) = 3
  /\ ~aggCall.ran[3].out.isNil

EqualPriorities(def) ==
  \E i, j \in 1..Len(def.chains) : i # j /\ def.chains[i].priority = def.chains[j].priority

\* C20: the aggregation validator rejects a shortCircuit definition exactly
\* when two of its sub-chains have the same priority, and accepts every
\* definition of another type.
C20_ShortCircuitNeedsDistinctPriorities ==
  apc # "input" =>
    /\ adef.type = AggShortCircuit => (averdict = "ok" <=> ~EqualPriorities(adef))
    /\ adef.type # AggShortCircuit => averdict = "ok"
    /\ averdict # "ok" => apc = "rejected"

\* a shortCircuit definition with two equal priorities was rejected, and so
\* was its build
C20_Witness ==
  /\ apc = "rejected"
  /\ adef.type = AggShortCircuit
  /\ EqualPriorities(adef)
  /\ averdict = "duplicatePriority"
  /\ aggCtx.err = "duplicatePriority"

(***************************************************************************)
(* Lifecycle callbacks.                                                    *)
(***************************************************************************)
\* a step that completes a successful build: NewChainEngine returning an
\* engine, or the second part of ReloadSelf
BuildCompletes ==
  /\ lastOp'.op \in {"NewChainEngine", "ReloadSelf"}
  /\ lastOp'.result = "ok"
  /\ lastOp.result # "ok" \/ lastOp.seq # lastOp'.seq

\* the build just completed is the first install of a running engine: no
\* chain was built before it, or the chain built before it was destroyed by
\* Stop
FirstInstall == Len(ctxs') = 1 \/ destroyed'[Len(ctxs') - 1] > 0

\* C24: a successful build fires exactly one lifecycle callback, OnNew when
\* it is the first install of the running engine and OnUpdated otherwise; no
\* other step fires either of them, and OnUpdated never fires before OnNew.
C24_OneLifecycleCallback ==
  [][/\ BuildCompletes =>
          callbacks' = IF FirstInstall THEN [callbacks EXCEPT !.new = @ + 1]
                       ELSE [callbacks EXCEPT !.updated = @ + 1]
     /\ (callbacks'.new # callbacks.new \/ callbacks'.updated # callbacks.updated)
          => BuildCompletes
     /\ callbacks'.updated > callbacks.updated => callbacks.new >= 1]_vars

\* a reload on a running engine has fired OnUpdated after the OnNew of the
\* first install
C24_Witness ==
  /\ lastOp.op = "ReloadSelf"
  /\ lastOp.result = "ok"
  /\ callbacks.new = 1
  /\ callbacks.updated = 1
  /\ callbacks.deleted = 0

(***************************************************************************)
(* The scratch map priVars.                                                *)
(***************************************************************************)
Keys(m) == {p[1] : p \in m}
ValueAt(m, k) == (CHOOSE p \in m : p[1] = k)[2]

\* C25: a step of an exprAssign node leaves in priVars the keys it had and
\* the keys of the mapping returned, with the returned value for a returned
\* key and the former value for every other key, and emits default; a step
\* of a start, filter or switch node leaves priVars as it was, and so does
\* everything between two node steps; a step of the end node sets
\* chainOutput to the value of its script on the priVars it found and leaves
\* priVars empty.
C25_AssignMergesPriVars ==
  [][\A c \in Calls :
       LET node == ctxs[calls[c].rc].nodes[calls[c].cur]
           pri == calls[c].msg.input.priVars
           priNext == calls'[c].msg.input.priVars
           ret == RunScript(node.script, [x |-> calls[c].x, priVars |-> pri])
       IN /\ (NodeStepOf(c) /\ node.type = RuleSubTypeExprAssign) =>
               /\ Keys(priNext) = Keys(pri) \cup Keys(ret.m)
               /\ Cardinality(priNext) = Cardinality(Keys(priNext))
               /\ \A k \in Keys(ret.m) : ValueAt(priNext, k) = ValueAt(ret.m, k)
               /\ \A k \in Keys(pri) \ Keys(ret.m) : ValueAt(priNext, k) = ValueAt(pri, k)
               /\ calls'[c].lastLabel = DefaultRelationType
          /\ (NodeStepOf(c) /\ node.type \notin {RuleSubTypeExprAssign, RuleSubTypeEnd}) =>
               priNext = pri
          /\ (NodeStepOf(c) /\ node.type = RuleSubTypeEnd) =>
               /\ ~calls'[c].msg.chainOutput.isNil
               /\ calls'[c].msg.chainOutput.m = ret.m
               /\ priNext = {}
          /\ (calls[c].pc # "idle" /\ nMsgs' = nMsgs /\ calls'[c].steps = calls[c].steps) =>
               calls'[c].msg = calls[c].msg]_vars

\* start -> assign {bonus:10} -> end {total:priVars.bonus+x} on x = 5 has
\* returned with chainOutput {total:15} and an empty priVars
C25_Witness ==
  \E c \in Calls : /\ calls[c].pc = "done"
                   /\ calls[c].ret = "ok"
                   /\ ctxs[calls[c].rc].selfDefinition = LinearDef
                   /\ calls[c].x = 5
                   /\ calls[c].msg.chainOutput = SomeOutput({<<"total", 15>>})
                   /\ calls[c].msg.input.priVars = {}

(***************************************************************************)
(* Properties of the single-chain specification.                           *)
(***************************************************************************)
\* C26: a call of ChainCtx.OnMsg that failed with a missing-branch error or
\* with the error of a node op holds in msg.chainOutput the value the
\* envelope had when the call began.
C26_FailedCallKeepsChainOutput ==
  (npc = "done" /\ ncall.ret \in {"branchMissing", "nodeError"})
    => ncall.msg.chainOutput = nin.chainOutput

\* a call on an envelope that carried a chain output has failed with a
\* missing branch after its switch
C26_Witness ==
  /\ npc = "done"
  /\ ncall.ret = "branchMissing"
  /\ ~nin.chainOutput.isNil
  /\ ncall.msg.chainOutput = nin.chainOutput
  /\ Len(ncall.path) = 2

\* the evaluator of the current node returns a value, and the value is not
\* of the kind the node asks for
WrongKind ==
  LET node == ncall.rc.nodes[ncall.cur]
  IN /\ node.type \in NodeKinds
     /\ RunScript(node.script, ncall.msg.input).kind \notin {"error", ExpectKind(node.type)}

\* C27: the step of a node whose evaluator returns a value of the wrong kind
\* ends the call with the node's error: the node emits no label, no edge is
\* followed, and priVars and chainOutput are as they were before the step.
C27_WrongKindFails ==
  [][(npc = "exec" /\ WrongKind) =>
       /\ npc' = "done"
       /\ ncall'.ret = "nodeError"
       /\ ncall'.path[Len(ncall'.path)] = [id |-> ncall.cur, label |-> ""]
       /\ ncall'.cur = ncall.cur
       /\ ncall'.msg = ncall.msg]_vars

\* a filter whose script returned a number has ended the call with an error
C27_Witness ==
  /\ npc = "done"
  /\ ncall.ret = "nodeError"
  /\ ncall.rc.nodes[ncall.cur].type = RuleSubTypeExprFilter
  /\ ncall.rc.nodes[ncall.cur].script = "x"
  /\ ncall.msg.chainOutput = nin.chainOutput
  /\ ncall.msg.input.priVars = nin.priVars

(***************************************************************************)
(* Length of a traversal.                                                  *)
(***************************************************************************)
\* C29: a call executes at most as many node steps as the graph it
\* traverses has nodes.
C29_StepsBoundedByNodes ==
  \A c \in Calls :
    calls[c].rc # 0 => calls[c].steps <= Cardinality(DOMAIN ctxs[calls[c].rc].nodes)

(***************************************************************************)
(* Hooks.                                                                  *)
(***************************************************************************)
\* C22: when a chain-before hook has returned an error, no chain-before
\* hook after it was invoked, the call returns an error, and no node is
\* executed.
C22_HookErrorAborts ==
  \A c \in Calls :
    calls[c].bErrAt > 0 =>
      /\ calls[c].bInvoked = calls[c].bErrAt
      /\ calls[c].err
      /\ calls[c].pc \in {"defer", "done", "panic"}
      /\ calls[c].steps = 0

\* C23: on a chain with node-after hooks, the node-after hooks have run in
\* every step whose node op was invoked, whether the op returned an error
\* or not.
C23_AfterHooksRunForEveryOp ==
  \A c \in Calls :
    (calls[c].rc # 0 /\ Len(ctxs[calls[c].rc].afterAspects) > 0)
      => calls[c].afterRuns = calls[c].steps

\* C28: a call in which a user's hook panicked does not end by panicking:
\* it returns an error and is counted as a failed request.
C28_PanicBecomesError ==
  \A c \in Calls :
    calls[c].thrown =>
      /\ calls[c].pc # "panic"
      /\ calls[c].pc = "done" => (calls[c].err /\ calls[c].status = 100)

(***************************************************************************)
(* Properties of the sort specification.                                   *)
(***************************************************************************)
\* hooks is in ascending Order(), and its hooks of equal Order() are in the
\* order they have in list
StablySorted(hooks, list) ==
  /\ \A i, j \in 1..Len(hooks) : i < j => AspectOrder(hooks[i]) <= AspectOrder(hooks[j])
  /\ \A o \in Orders(list) \cup Orders(hooks) : HasOrder(hooks, o) = HasOrder(list, o)

\* C21: the hooks of every kind are invoked in ascending Order(), and hooks
\* of equal Order() in the order in which they appear in the aspect list.
C21_HooksInStableOrder ==
  ppc = "sorted" =>
    /\ StablySorted(pout.chain, SelectSeq(pin, IsChainAspect))
    /\ StablySorted(pout.node, SelectSeq(pin, IsNodeAspect))
    /\ StablySorted(pout.init, SelectSeq(pin, IsOnChainBeforeInitAspect))

(***************************************************************************)
(* Properties of the switch specification.                                 *)
(***************************************************************************)
IsOther(c) == TrimSpace(c.case) = "other"

\* a configuration without script whose cases have no empty component and
\* hold an `other` entry in the last place or not at all
CasesWellFormed ==
  /\ Len(TrimSpace(pin.script)) = 0
  /\ Len(pin.cases) >= 1
  /\ \A i \in 1..Len(pin.cases) :
       /\ TrimSpace(pin.cases[i].case) # ""
       /\ TrimSpace(pin.cases[i].then) # ""
       /\ IsOther(pin.cases[i]) => i = Len(pin.cases)

TrueCases == {i \in 1..Len(pin.cases) : ~IsOther(pin.cases[i]) /\ CondHolds(pin.cases[i].case, pin.x)}
OtherCases == {i \in 1..Len(pin.cases) : IsOther(pin.cases[i])}

\* C30: a switch with well-formed cases and no script initialises, with an
\* `other` entry or without; it emits the `then` of the first case whose
\* condition is true, and the `then` of `other` when no condition is true.
C30_CasesLowerToTernary ==
  (ppc # "input" /\ CasesWellFormed) =>
    /\ ppc # "rejected"
    /\ (ppc = "done" /\ TrueCases # {}) =>
         pout.label = LabelOf(TrimSpace(pin.cases[CHOOSE i \in TrueCases :
                                                   \A j \in TrueCases : i <= j].then))
    /\ (ppc = "done" /\ TrueCases = {} /\ OtherCases # {}) =>
         pout.label = LabelOf(TrimSpace(pin.cases[CHOOSE i \in OtherCases : TRUE].then))

(***************************************************************************)
(* Properties of the pool specification.                                   *)
(***************************************************************************)
JsReturned(c) == jcalls[c].pc \in {"exit", "done"}

\* C31: a jsFilter call whose script returns a boolean emits the label true
\* or false accordingly and returns no error; it returns an error only when
\* the script throws or returns a value that is not a boolean.
C31_JsFilterEmitsTrueOrFalse ==
  \A c \in JsCalls :
    (jnode.type = RuleSubTypeJsFilter /\ JsReturned(c)) =>
      LET out == RunJs(jnode.script, jcalls[c].x)
      IN /\ out.kind = "bool" =>
              /\ jcalls[c].err = ""
              /\ jcalls[c].label = IF out.b THEN TrueRelationType ELSE FalseRelationType
         /\ jcalls[c].err # "" => out.kind # "bool"

JsHolding(c) == jcalls[c].pc \in {"run", "exit"}

\* C34: a VM is held by at most one OnMsg call at a time and is not in the
\* pool while it is held; a call that has returned, with or without an
\* error, has put the VM it acquired back into the pool.
C34_VMsSingleOwnerAndReturned ==
  /\ \A c \in JsCalls : JsHolding(c) =>
       /\ jcalls[c].vm # 0
       /\ jcalls[c].vm \notin jnode.pool
       /\ \A d \in JsCalls \ {c} : JsHolding(d) => jcalls[d].vm # jcalls[c].vm
  /\ \A c \in JsCalls : jcalls[c].pc = "done" =>
       /\ jcalls[c].got # 0
       /\ jcalls[c].put = jcalls[c].got

\* a jsSwitch call has returned the error of a result of the wrong kind and
\* put back its VM, which a second call has acquired from the pool while
\* no other VM was made
C34_Witness ==
  /\ jnode.type = RuleSubTypeJsSwitch
  /\ jnode.made = 1
  /\ \E c \in JsCalls, d \in JsCalls :
       /\ c # d
       /\ jcalls[c].pc = "done"
       /\ jcalls[c].err = "format"
       /\ jcalls[c].put = 1
       /\ JsHolding(d)
       /\ jcalls[d].vm = 1

(***************************************************************************)
(* Properties of the traversal specification.                              *)
(***************************************************************************)
\* the envelope of call c when the call runs alone on the ChainCtx it
\* started on
RunAlone(c) == ChainCtxOnMsg(tcalls[c].rc0, newRuleMsg(tcalls[c].x))

\* C32: no step of a traversal changes the ChainCtx (node index, routes,
\* root id), and a call that ends between the steps of other calls leaves
\* in its envelope the chainOutput and priVars, and returns the error or
\* success, of the same call run alone.
C32_TraversalsAreIndependent ==
  [][/\ tctx' = tctx
     /\ \A c \in TravCalls :
          (tcalls'[c].pc = "done" /\ tcalls[c].pc = "exec") =>
            \E alone \in {RunAlone(c)} :
              /\ tcalls'[c].msg.chainOutput = alone.msg.chainOutput
              /\ tcalls'[c].msg.input.priVars = alone.msg.input.priVars
              /\ (tcalls'[c].ret # "ok") = alone.err]_vars

\* two calls on different inputs have run with their steps interleaved and
\* both have ended, one with a chain output and one with an error
C32_Witness ==
  /\ tctx.selfDefinition = SwitchDef
  /\ \E c \in TravCalls, d \in TravCalls :
       /\ tcalls[c].pc = "done"
       /\ tcalls[d].pc = "exec"
       /\ tcalls[d].steps >= 1
       /\ tcalls[c].x # tcalls[d].x
       /\ tcalls[c].steps >= 2
       /\ ~tcalls[c].msg.chainOutput.isNil

(***************************************************************************)
(* Destroy and OnMsg.                                                      *)
(***************************************************************************)
\* C33: no node op is invoked on a node that has been destroyed: every step
\* of a traversal that invokes the OnMsg of a node works on a ChainCtx
\* whose nodes Stop has not destroyed.
C33_NoOpOnDestroyedNode ==
  [][\A c \in Calls :
       (calls[c].pc = "exec" /\ calls'[c].steps = calls[c].steps + 1)
         => destroyed[StepCtx(c)] = 0]_vars

(***************************************************************************)
(* OnMsg on a stopped engine.                                              *)
(***************************************************************************)
\* call c began after a successful Stop, and no NewChainEngine, ReloadSelf or
\* Stop has been called since; no hook of the call has panicked
OnStoppedEngine(c) ==
  /\ calls[c].pc # "idle"
  /\ lastOp.op = "Stop"
  /\ lastOp.result = "ok"
  /\ calls[c].startOp = lastOp.seq
  /\ ~calls[c].thrown

\* C38: Engine.OnMsg on a stopped engine returns an error: the call does not
\* panic, executes no node, and when it has returned it has returned an
\* error.
C38_OnMsgOnStoppedEngineFails ==
  \A c \in Calls :
    OnStoppedEngine(c) =>
      /\ calls[c].pc # "panic"
      /\ calls[c].steps = 0
      /\ calls[c].pc = "done" => IsError(calls[c].ret)

(***************************************************************************)
(* The engine's aspect list.                                               *)
(***************************************************************************)
Occurrences(list, a) == Cardinality({i \in 1..Len(list) : list[i] = a})

\* C39: the engine's aspect list holds each built-in aspect at most once,
\* and so do the lists of chain hooks derived from it.
C39_BuiltinsAtMostOnce ==
  \A i \in 1..Len(BuiltinsAspects) :
    /\ Occurrences(aspects, BuiltinsAspects[i]) <= 1
    /\ Occurrences(beforeAspects, BuiltinsAspects[i]) <= 1
    /\ Occurrences(afterAspects, BuiltinsAspects[i]) <= 1

(***************************************************************************)
(* The lifetime of node instances.                                         *)
(***************************************************************************)
\* C40: when Stop has returned, the nodes of every ChainCtx built by this
\* engine, the replaced ones included, have been destroyed exactly once.
C40_StopDestroysEveryBuild ==
  (lastOp.op = "Stop" /\ lastOp.result = "ok") =>
    \A i \in 1..Len(ctxs) : destroyed[i] = 1

(***************************************************************************)
(* The path reported by the cycle detection.                               *)
(***************************************************************************)
\* consecutive nodes of the path are joined by declared edges
IsWalk(path, cs) == \A i \in 1..(Len(path) - 1) : <<path[i], path[i + 1]>> \in EdgePairs(cs)

\* C35: checkCycles returns true exactly when the connections have a cycle,
\* and the path it returns with true is a closed walk along declared edges:
\* it has at least two entries and its first node is its last node.
C35_CyclePathIsTheCycle ==
  bpc # "input" =>
    \A order \in CycleOrders(bdef.connections) :
      \E r \in {checkCycles(bdef.connections, order)} :
        /\ r.hasCycle <=> HasCycleRef(bdef.connections)
        /\ r.hasCycle =>
             /\ Len(r.path) >= 2
             /\ IsWalk(r.path, bdef.connections)
             /\ r.path[1] = r.path[Len(r.path)]

(***************************************************************************)
(* The end of a traversal.                                                 *)
(***************************************************************************)
\* C36: on a definition the validator accepted, a traversal executes no
\* node twice, and a traversal that returned success executed a node of
\* kind end last.
C36_SuccessEndsAtEndNode ==
  npc \in {"exec", "done"} =>
    /\ \A i \in 1..Len(ncall.path) : \A j \in 1..Len(ncall.path) :
         ncall.path[i].id = ncall.path[j].id => i = j
    /\ (npc = "done" /\ ncall.ret = "ok") =>
         /\ Len(ncall.path) >= 1
         /\ ncall.rc.nodes[ncall.path[Len(ncall.path)].id].type = RuleSubTypeEnd

(***************************************************************************)
(* priVars between the sub-chains of an aggregation.                       *)
(***************************************************************************)
\* C37: every sub-chain of an aggregation starts on an envelope whose
\* priVars is empty, also after a sub-chain that failed without ending the
\* aggregation.
C37_SubChainStartsWithEmptyPriVars ==
  (apc = "run" /\ aggCall.i <= Len(aggCtx.chains)) => aggCall.msg.input.priVars = EmptyMap

====
